---- MODULE Spec2Model ----
(***************************************************************************)
(* Coverage analysis of raw-material demand (interflow-backend).           *)
(*                                                                         *)
(* The repositories hold demand events (besoins), stock records,           *)
(* receipts (receptions) and shipments (rappatriements).  AnalyseService   *)
(* walks the demand events of a material in due-date order and consumes    *)
(* the coverage supply (internal stock + matching shipment lines).         *)
(*                                                                         *)
(* Quantities are floats in the program; they are modelled by naturals,    *)
(* and a quotient a/b is kept as the exact fraction [num |-> a, den |-> b].*)
(* Strings that the program searches or tests by prefix are tuples of      *)
(* one-character strings; lot labels are naturals, 0 being the empty lot.  *)
(* A datetime is a number of ticks, TicksPerDay ticks making one day.      *)
(***************************************************************************)
EXTENDS Integers, Sequences, FiniteSets, TLC

VARIABLES
    besoins,          \* BesoinsRepository.data
    stocks,           \* StocksRepository.data
    receptions,       \* ReceptionsRepository.data
    rappatriements,   \* RappatriementsRepository.data
    besoins_matiere,  \* argument list handed to _analyze_single_matiere
    analyse,          \* AnalyseMatiere built by the last _analyze_single_matiere run
    coverage_stock,   \* last call of _get_coverage_stock_for_matiere and its value
    resultat,         \* value returned by the last public entry point
    requetes          \* local variables of the requests being served

vars == <<besoins, stocks, receptions, rappatriements, besoins_matiere,
          analyse, coverage_stock, resultat, requetes>>

----------------------------------------------------------------------------
(* Bounds of the model *)

MaxBesoins == 3     \* longest demand list handed to the allocator
MaxDate == 2        \* due dates are the ticks 0..MaxDate
MaxQuantite == 3    \* demand quantities are 0..MaxQuantite
MaxStock == 4       \* internal stock quantities are 0..MaxStock
MaxStocks == 2      \* stock records in the repository
MaxProduits == 2    \* lines of a shipment
MaxHorizon == 1     \* horizon_days is 1..MaxHorizon
MaxRequetes == 2    \* requests served at the same time
MaxRepo == 3        \* demand events the repository holds
MaxCumul == 5       \* largest quantity an event reaches by aggregation
TicksPerDay == 2    \* datetime resolution below the day

----------------------------------------------------------------------------
(* Values *)

None == [none |-> TRUE]

\* the exception raised by a float division by zero
ZeroDivisionError == [raised |-> "ZeroDivisionError"]

\* Etat enum members (models/besoin.py)
INCONNU == "inconnu"
PARTIEL == "partiel"
COUVERT == "couvert"
NON_COUVERT == "non_couvert"

\* material codes: CodeA occurs, case-insensitively, inside CodeB
CodeA == <<"A", "1">>
CodeB == <<"a", "1", "0">>
CodeU == <<"Z", "9">>

\* warehouse codes
MagInterne == <<"1", "0">>
MagExterne == <<"E", "X", "1">>
Mag30 == <<"3", "0">>

----------------------------------------------------------------------------
(* Python built-ins *)

\* str.lower on one character
LowerChar(c) ==
    CASE c = "A" -> "a"
      [] c = "E" -> "e"
      [] c = "X" -> "x"
      [] c = "Z" -> "z"
      [] OTHER -> c

\* str.lower
Lower(s) == [i \in 1..Len(s) |-> LowerChar(s[i])]

\* needle in hay
Contains(needle, hay) ==
    \E i \in 0..(Len(hay) - Len(needle)) :
        SubSeq(hay, i + 1, i + Len(needle)) = needle

\* s.startswith(p)
StartsWith(s, p) == Len(s) >= Len(p) /\ SubSeq(s, 1, Len(p)) = p

\* a / b on floats
Div(a, b) == IF b = 0 THEN ZeroDivisionError ELSE [num |-> a, den |-> b]

\* a float literal
Float(a) == [num |-> a, den |-> 1]

\* the size of the difference, whatever its sign
Max0_Abs(a) == IF a > 0 THEN a ELSE 0 - a

\* the difference itself, negative when the supply exceeds the demand
Max0_Signed(a) == a

\* max(0, a)
Max0(a) == IF a > 0 THEN a ELSE 0

\* sum(s[i].quantite for i)
RECURSIVE SumQuantite(_)
SumQuantite(s) ==
    IF s = <<>> THEN 0 ELSE Head(s).quantite + SumQuantite(Tail(s))

\* datetime.strftime("%Y-%m-%d"): the day, the time of day is dropped
FormatDate(echeance) == echeance \div TicksPerDay

----------------------------------------------------------------------------
(* Repositories *)

\* Besoin.__init__: the id is built from code_mp, the day of the due date
\* and the stripped lot when no id is given
BesoinId(code_mp, echeance, lot) ==
    IF lot # 0 THEN <<code_mp, FormatDate(echeance), lot>>
    ELSE <<code_mp, FormatDate(echeance)>>

Besoin(code_mp, quantite, echeance, etat, lot) ==
    [id |-> BesoinId(code_mp, echeance, lot), code_mp |-> code_mp,
     quantite |-> quantite, echeance |-> echeance, etat |-> etat, lot |-> lot]

Stock(code_mp, quantite, magasin) ==
    [code_mp |-> code_mp, quantite |-> quantite, magasin |-> magasin]

ProduitRappatriement(code_prdt, designation_prdt, poids_net) ==
    [code_prdt |-> code_prdt, designation_prdt |-> designation_prdt,
     poids_net |-> poids_net]

\* EtatReception.EN_COURS, an enum member, and its .value, a str
EN_COURS == <<"EtatReception", "en_cours">>
TERMINEE == <<"EtatReception", "terminee">>
EnumValue(member) == <<"str", member[2]>>

Reception(code_mp, quantite, etat) ==
    [code_mp |-> code_mp, quantite |-> quantite, etat |-> etat]

\* the records of warehouse 30 are kept
GetStocksByMatiere_With30(code_mp) ==
    LET Keep(stock) == stock.code_mp = code_mp
    IN  SelectSeq(stocks, Keep)

\* StocksRepository.get_stocks_by_matiere
GetStocksByMatiere(code_mp) ==
    LET Keep(stock) == stock.code_mp = code_mp /\ stock.magasin # Mag30
    IN  SelectSeq(stocks, Keep)

\* the stock of the EX warehouses is kept among the internal stock
GetInternalStocksByMatiere_WithExterne(code_mp) ==
    GetStocksByMatiere(code_mp)

\* StocksRepository.get_internal_stocks_by_matiere
GetInternalStocksByMatiere(code_mp) ==
    LET Keep(stock) == ~StartsWith(stock.magasin, <<"E", "X">>)
    IN  SelectSeq(GetStocksByMatiere(code_mp), Keep)

\* StocksRepository.get_external_stocks_by_matiere
GetExternalStocksByMatiere(code_mp) ==
    LET Keep(stock) == StartsWith(stock.magasin, <<"E", "X">>)
    IN  SelectSeq(GetStocksByMatiere(code_mp), Keep)

\* RappatriementsRepository.get_rappatriements_by_matiere
GetRappatriementsByMatiere(code_matiere) ==
    LET code_matiere_lower == Lower(code_matiere)
        Keep(rappatriement) ==
            \E k \in 1..Len(rappatriement.produits) :
                \/ Contains(code_matiere_lower,
                            Lower(rappatriement.produits[k].code_prdt))
                \/ Contains(code_matiere_lower,
                            Lower(rappatriement.produits[k].designation_prdt))
    IN  SelectSeq(rappatriements, Keep)

\* BaseRepository.filter(etat=...), as ReceptionsRepository calls it
FilterReceptionsByEtat(value) ==
    LET Keep(item) == item.etat = value
    IN  SelectSeq(receptions, Keep)

\* ReceptionsRepository.get_receptions_en_cours
GetReceptionsEnCours == FilterReceptionsByEtat(EnumValue(EN_COURS))

----------------------------------------------------------------------------
(* AnalyseService: private helpers *)

\* AnalyseService._string_to_etat
StringToEtat(etat_str) ==
    CASE etat_str = "COUVERT" -> COUVERT
      [] etat_str = "PARTIEL" -> PARTIEL
      [] etat_str = "NON_COUVERT" -> NON_COUVERT
      [] OTHER -> NON_COUVERT

\* sum(p.poids_net for p in produits)
RECURSIVE Sigma0(_)
Sigma0(produits) ==
    IF produits = <<>> THEN 0
    ELSE Head(produits).poids_net + Sigma0(Tail(produits))

\* the lines are matched as written, without lower-casing
RECURSIVE SumProduits_CaseSensitive(_, _)
SumProduits_CaseSensitive(code_mp, produits) ==
    IF produits = <<>> THEN 0
    ELSE LET produit == Head(produits)
             rest == SumProduits_CaseSensitive(code_mp, Tail(produits))
         IN  IF \/ Contains(code_mp, produit.code_prdt)
                \/ Contains(code_mp, produit.designation_prdt)
             THEN produit.poids_net + rest
             ELSE rest

\* a line counts for the one material whose code is its product code
RECURSIVE SumProduits_ExactCode(_, _)
SumProduits_ExactCode(code_mp, produits) ==
    IF produits = <<>> THEN 0
    ELSE LET produit == Head(produits)
             rest == SumProduits_ExactCode(code_mp, Tail(produits))
         IN  IF Lower(code_mp) = Lower(produit.code_prdt)
             THEN produit.poids_net + rest
             ELSE rest

\* the lines of one shipment that count for code_mp, summed
RECURSIVE SumProduits(_, _)
SumProduits(code_mp, produits) ==
    IF produits = <<>> THEN 0
    ELSE LET produit == Head(produits)
             rest == SumProduits(code_mp, Tail(produits))
         IN  IF \/ Contains(Lower(code_mp), Lower(produit.code_prdt))
                \/ Contains(Lower(code_mp), Lower(produit.designation_prdt))
             THEN produit.poids_net + rest
             ELSE rest

\* every line of a matching shipment is counted, matching or not
RECURSIVE CalculateRappatriementsQuantity_AllLines(_, _)
CalculateRappatriementsQuantity_AllLines(code_mp, rapps) ==
    IF rapps = <<>> THEN 0
    ELSE LET produits == Head(rapps).produits
         IN  Sigma0(produits)
             + CalculateRappatriementsQuantity_AllLines(code_mp, Tail(rapps))

\* AnalyseService._calculate_rappatriements_quantity
RECURSIVE CalculateRappatriementsQuantity(_, _)
CalculateRappatriementsQuantity(code_mp, rapps) ==
    IF rapps = <<>> THEN 0
    ELSE SumProduits(code_mp, Head(rapps).produits)
         + CalculateRappatriementsQuantity(code_mp, Tail(rapps))

\* the first test taken strictly: an exact fit is no longer covered
CalculateCoverageState_Strict(stock_disponible, quantite_besoin) ==
    IF stock_disponible > quantite_besoin
    THEN [etat |-> "COUVERT", quantite_disponible |-> quantite_besoin,
          pourcentage |-> Float(100)]
    ELSE IF stock_disponible > 0
    THEN [etat |-> "PARTIEL", quantite_disponible |-> stock_disponible,
          pourcentage |-> Div(stock_disponible * 100, quantite_besoin)]
    ELSE [etat |-> "NON_COUVERT", quantite_disponible |-> 0,
          pourcentage |-> Float(0)]

\* a partial event reports the whole quantity as available
CalculateCoverageState_FullAvail(stock_disponible, quantite_besoin) ==
    IF stock_disponible >= quantite_besoin
    THEN [etat |-> "COUVERT", quantite_disponible |-> quantite_besoin,
          pourcentage |-> Float(100)]
    ELSE IF stock_disponible > 0
    THEN [etat |-> "PARTIEL", quantite_disponible |-> quantite_besoin,
          pourcentage |-> Div(stock_disponible * 100, quantite_besoin)]
    ELSE [etat |-> "NON_COUVERT", quantite_disponible |-> 0,
          pourcentage |-> Float(0)]

\* AnalyseService._calculate_coverage_state
CalculateCoverageState(stock_disponible, quantite_besoin) ==
    IF stock_disponible >= quantite_besoin
    THEN [etat |-> "COUVERT", quantite_disponible |-> quantite_besoin,
          pourcentage |-> Float(100)]
    ELSE IF stock_disponible > 0
    THEN [etat |-> "PARTIEL", quantite_disponible |-> stock_disponible,
          pourcentage |-> Div(stock_disponible * 100, quantite_besoin)]
    ELSE [etat |-> "NON_COUVERT", quantite_disponible |-> 0,
          pourcentage |-> Float(0)]

\* a sort that is not stable: equal due dates come out reversed
RECURSIVE SortedByEcheance_Unstable(_)
SortedByEcheance_Unstable(s) ==
    IF s = <<>> THEN <<>>
    ELSE LET front == SortedByEcheance_Unstable(SubSeq(s, 1, Len(s) - 1))
             last == s[Len(s)]
             k == Cardinality({i \in 1..Len(front) :
                                 front[i].echeance < last.echeance})
         IN  SubSeq(front, 1, k) \o <<last>> \o SubSeq(front, k + 1, Len(front))

\* sorted(besoins, key=lambda b: b.echeance): a stable sort on the due date
RECURSIVE SortedByEcheance(_)
SortedByEcheance(s) ==
    IF s = <<>> THEN <<>>
    ELSE LET front == SortedByEcheance(SubSeq(s, 1, Len(s) - 1))
             last == s[Len(s)]
             k == Cardinality({i \in 1..Len(front) :
                                 front[i].echeance <= last.echeance})
         IN  SubSeq(front, 1, k) \o <<last>> \o SubSeq(front, k + 1, Len(front))

\* a partial event takes its whole quantity out of the pool
ConsumeStock_Overdraw(etat_str, stock_courant, quantite) ==
    IF etat_str = "NON_COUVERT" THEN stock_courant
    ELSE stock_courant - quantite

\* a partial event leaves the pool untouched
ConsumeStock_PartialKeeps(etat_str, stock_courant, quantite) ==
    IF etat_str = "COUVERT" THEN stock_courant - quantite
    ELSE stock_courant

\* "Consommer le stock" in _analyze_matiere_chronological_coverage
ConsumeStock(etat_str, stock_courant, quantite) ==
    IF etat_str = "COUVERT" THEN stock_courant - quantite
    ELSE IF etat_str = "PARTIEL" THEN 0
    ELSE stock_courant

\* the loop of _analyze_matiere_chronological_coverage over the sorted list
RECURSIVE CoverageLoop(_, _)
CoverageLoop(besoins_tries, stock_courant) ==
    IF besoins_tries = <<>> THEN <<>>
    ELSE LET besoin == Head(besoins_tries)
             st == CalculateCoverageState(stock_courant, besoin.quantite)
             stock_suivant == ConsumeStock(st.etat, stock_courant, besoin.quantite)
         IN  <<[besoin |-> besoin,
                etat_couverture |-> st.etat,
                quantite_disponible |-> st.quantite_disponible,
                pourcentage_couverture |-> st.pourcentage,
                stock_restant |-> stock_suivant]>>
             \o CoverageLoop(Tail(besoins_tries), stock_suivant)

\* AnalyseService._analyze_matiere_chronological_coverage
AnalyzeMatiereChronologicalCoverage(besoins_m, stock_initial) ==
    CoverageLoop(SortedByEcheance(besoins_m), stock_initial)

\* the supply reported is the one left after the event
PremierBesoinNonCouvert_After(i, besoin, stock_disponible) ==
    [index |-> i,
     echeance |-> FormatDate(besoin.echeance),
     quantite_besoin |-> besoin.quantite,
     stock_restant |-> 0,
     quantite_manquante |-> besoin.quantite - stock_disponible]

\* the dict recorded for "le premier besoin non entierement couvert"
PremierBesoinNonCouvert(i, besoin, stock_disponible) ==
    [index |-> i,
     echeance |-> FormatDate(besoin.echeance),
     quantite_besoin |-> besoin.quantite,
     stock_restant |-> stock_disponible,
     quantite_manquante |-> besoin.quantite - stock_disponible]

\* a partial event leaves the supply of the trace untouched
StockApres_PartialKeeps(etat_str, stock_disponible, quantite) ==
    IF etat_str = "COUVERT" THEN stock_disponible - quantite
    ELSE stock_disponible

\* a covered event adds its quantity to the pool
StockApres_Adds(etat_str, stock_disponible, quantite) ==
    IF etat_str = "COUVERT" THEN stock_disponible + quantite
    ELSE IF etat_str = "PARTIEL" THEN 0
    ELSE stock_disponible

\* "Calculer stock apres" in _create_chronological_analysis
StockApres(etat_str, stock_disponible, quantite) ==
    IF etat_str = "COUVERT" THEN stock_disponible - quantite
    ELSE IF etat_str = "PARTIEL" THEN 0
    ELSE stock_disponible

\* the loop of _create_chronological_analysis: besoins_tries[i..] remain,
\* acc is the dict being built
RECURSIVE ChronoLoop(_, _, _)
ChronoLoop(besoins_tries, i, acc) ==
    IF i > Len(besoins_tries) THEN acc
    ELSE LET besoin == besoins_tries[i]
             stock_disponible == acc.stock_final
             st == CalculateCoverageState(stock_disponible, besoin.quantite)
             premier ==
                 IF acc.premier_besoin_non_couvert = None /\ st.etat # "COUVERT"
                 THEN PremierBesoinNonCouvert(i - 1, besoin, stock_disponible)
                 ELSE acc.premier_besoin_non_couvert
             stock_apres == StockApres(st.etat, stock_disponible, besoin.quantite)
             etape == [echeance |-> FormatDate(besoin.echeance),
                       quantite_besoin |-> besoin.quantite,
                       stock_avant |-> stock_disponible,
                       stock_apres |-> stock_apres,
                       etat |-> st.etat]
         IN  ChronoLoop(besoins_tries, i + 1,
                 [acc EXCEPT !.couverture_chronologique = Append(@, etape),
                             !.premier_besoin_non_couvert = premier,
                             !.stock_final = stock_apres])

\* the final supply starts from 0 instead of the initial supply
CreateChronologicalAnalysis_FinalZero(besoins_m, stock_initial) ==
    ChronoLoop(SortedByEcheance(besoins_m), 1,
               [couverture_chronologique |-> <<>>,
                premier_besoin_non_couvert |-> None,
                stock_initial |-> stock_initial,
                stock_final |-> 0])

\* AnalyseService._create_chronological_analysis
CreateChronologicalAnalysis(besoins_m, stock_initial) ==
    ChronoLoop(SortedByEcheance(besoins_m), 1,
               [couverture_chronologique |-> <<>>,
                premier_besoin_non_couvert |-> None,
                stock_initial |-> stock_initial,
                stock_final |-> stock_initial])

\* AnalyseService._get_coverage_stock_for_matiere
GetCoverageStockForMatiere(code_mp) ==
    LET stocks_internes == GetInternalStocksByMatiere(code_mp)
        rapps == GetRappatriementsByMatiere(code_mp)
        quantite_stock_internes == SumQuantite(stocks_internes)
        quantite_rappatriements == CalculateRappatriementsQuantity(code_mp, rapps)
    IN  quantite_stock_internes + quantite_rappatriements

\* the dict magasin -> quantity built from the external stocks
StocksExternesDict(stocks_externes) ==
    LET magasins == {stocks_externes[i].magasin : i \in 1..Len(stocks_externes)}
        Of(m) == LET Keep(stock) == stock.magasin = m
                 IN  SelectSeq(stocks_externes, Keep)
    IN  [m \in magasins |-> SumQuantite(Of(m))]

\* sum(d.values())
RECURSIVE SumValues(_, _)
SumValues(d, keys) ==
    IF keys = {} THEN 0
    ELSE LET m == CHOOSE x \in keys : TRUE
         IN  d[m] + SumValues(d, keys \ {m})

\* the rate computed without the guard on the number of events
TauxCouverture_Unguarded(total_couverts, total_besoins) ==
    Div(total_couverts * 100, total_besoins)

\* total_couverts / total_besoins * 100 if total_besoins > 0 else 0
TauxCouverture(total_couverts, total_besoins) ==
    IF total_besoins > 0 THEN Div(total_couverts * 100, total_besoins)
    ELSE Float(0)

\* AnalyseService._analyze_single_matiere
AnalyzeSingleMatiere(code_mp, besoins_m) ==
    LET stocks_internes == GetInternalStocksByMatiere(code_mp)
        stocks_externes == GetExternalStocksByMatiere(code_mp)
        receptions_en_cours == GetReceptionsEnCours
        rappatriements_en_cours == GetRappatriementsByMatiere(code_mp)
        quantite_stock_internes == SumQuantite(stocks_internes)
        quantite_rappatriements ==
            CalculateRappatriementsQuantity(code_mp, rappatriements_en_cours)
        OfMatiere(r) == r.code_mp = code_mp
        quantite_receptions == SumQuantite(SelectSeq(receptions_en_cours, OfMatiere))
        stocks_externes_dict == StocksExternesDict(stocks_externes)
        stock_couverture == quantite_stock_internes + quantite_rappatriements
        couverture_results ==
            AnalyzeMatiereChronologicalCoverage(besoins_m, stock_couverture)
        quantite_besoin_totale == SumQuantite(besoins_m)
        total_besoins == Len(besoins_m)
        IsCouvert(r) == r.etat_couverture = "COUVERT"
        total_couverts == Len(SelectSeq(couverture_results, IsCouvert))
        taux_couverture == TauxCouverture(total_couverts, total_besoins)
        analyse_chrono == CreateChronologicalAnalysis(besoins_m, stock_couverture)
    IN  IF \/ taux_couverture = ZeroDivisionError
           \/ \E i \in 1..Len(couverture_results) :
                 couverture_results[i].pourcentage_couverture = ZeroDivisionError
        THEN ZeroDivisionError
        ELSE [code_mp |-> code_mp,
              total_besoins |-> total_besoins,
              total_couverts |-> total_couverts,
              taux_couverture |-> taux_couverture,
              quantite_besoin_totale |-> quantite_besoin_totale,
              quantite_stock_internes |-> quantite_stock_internes,
              stocks_externes |-> stocks_externes_dict,
              quantite_receptions |-> quantite_receptions,
              quantite_rappatriements |-> quantite_rappatriements,
              quantite_totale_disponible |->
                  quantite_stock_internes
                  + SumValues(stocks_externes_dict, DOMAIN stocks_externes_dict)
                  + quantite_receptions + quantite_rappatriements,
              stock_couverture_disponible |-> stock_couverture,
              stock_manquant |-> Max0(quantite_besoin_totale - stock_couverture),
              couverture_par_besoin |-> couverture_results,
              analyse_chronologique |-> analyse_chrono]

\* the truthiness test taken on the index: index 0 reads as absent
CreateAnalyseChronologiquePydantic_IndexTruthy(analyse_chrono) ==
    LET steps == analyse_chrono.couverture_chronologique
        etapes_chrono == [k \in 1..Len(steps) |->
                             [steps[k] EXCEPT !.etat = StringToEtat(@)]]
        premier == analyse_chrono.premier_besoin_non_couvert
        premier_besoin == IF premier # None /\ premier.index # 0
                          THEN premier ELSE None
    IN  [couverture_chronologique |-> etapes_chrono,
         premier_besoin_non_couvert |-> premier_besoin,
         stock_initial |-> analyse_chrono.stock_initial,
         stock_final |-> analyse_chrono.stock_final]

\* AnalyseService._create_analyse_chronologique_pydantic
CreateAnalyseChronologiquePydantic(analyse_chrono) ==
    LET steps == analyse_chrono.couverture_chronologique
        etapes_chrono == [k \in 1..Len(steps) |->
                             [steps[k] EXCEPT !.etat = StringToEtat(@)]]
        premier == analyse_chrono.premier_besoin_non_couvert
        \* a dict with five keys is truthy, None is not
        premier_besoin == IF premier # None THEN premier ELSE None
    IN  [couverture_chronologique |-> etapes_chrono,
         premier_besoin_non_couvert |-> premier_besoin,
         stock_initial |-> analyse_chrono.stock_initial,
         stock_final |-> analyse_chrono.stock_final]

\* AnalyseService._create_analyse_matiere_pydantic
CreateAnalyseMatierePydantic(analyse_data) ==
    LET results == analyse_data.couverture_par_besoin
        couvertures_pydantic ==
            [k \in 1..Len(results) |->
                [besoin |-> results[k].besoin,
                 quantite_besoin |-> results[k].besoin.quantite,
                 quantite_stock_internes |-> analyse_data.quantite_stock_internes,
                 stocks_externes |-> analyse_data.stocks_externes,
                 quantite_receptions |-> analyse_data.quantite_receptions,
                 quantite_rappatriements |-> analyse_data.quantite_rappatriements,
                 quantite_disponible_couverture |-> results[k].quantite_disponible,
                 etat_couverture |-> StringToEtat(results[k].etat_couverture),
                 pourcentage_couverture |-> results[k].pourcentage_couverture,
                 stock_restant_apres_consommation |-> results[k].stock_restant]]
    IN  [analyse_data EXCEPT
            !.couverture_par_besoin = couvertures_pydantic,
            !.analyse_chronologique = CreateAnalyseChronologiquePydantic(@)]

\* BesoinsRepository.filter_besoins_advanced(etat=...), the only filter
\* that get_besoins_by_etat sets
GetBesoinsByEtat(etat) ==
    LET Keep(b) == b.etat = etat
    IN  SelectSeq(besoins, Keep)

\* the events due before the start date are left out
GetBesoinsActuelsByHorizon_FromStart(horizon_days, date_initiale) ==
    LET besoins_actuels == GetBesoinsByEtat(INCONNU)
        date_limite == date_initiale + horizon_days * TicksPerDay
        Keep(besoin) == /\ date_initiale <= besoin.echeance
                        /\ besoin.echeance <= date_limite
    IN  SelectSeq(besoins_actuels, Keep)

\* BesoinsRepository.get_besoins_actuels_by_horizon
GetBesoinsActuelsByHorizon(horizon_days, date_initiale) ==
    LET besoins_actuels == GetBesoinsByEtat(INCONNU)
        date_limite == date_initiale + horizon_days * TicksPerDay
        Keep(besoin) == besoin.echeance <= date_limite
    IN  SelectSeq(besoins_actuels, Keep)

\* the events of the material whatever their due date
GetBesoinsActuelsByMatiereAndHorizon_All(code_mp, horizon_days, date_initiale) ==
    LET Keep(besoin) == besoin.code_mp = code_mp
    IN  SelectSeq(GetBesoinsByEtat(INCONNU), Keep)

\* BesoinsRepository.get_besoins_actuels_by_matiere_and_horizon
GetBesoinsActuelsByMatiereAndHorizon(code_mp, horizon_days, date_initiale) ==
    LET Keep(besoin) == besoin.code_mp = code_mp
    IN  SelectSeq(GetBesoinsActuelsByHorizon(horizon_days, date_initiale), Keep)

\* a material without events is reported as covered in full
CreateEmptyAnalyse_FullRate(code_mp, date_initiale, horizon_days) ==
    [horizon_jours |-> horizon_days,
     date_initiale |-> date_initiale,
     date_limite |-> date_initiale + horizon_days * TicksPerDay,
     analyse_par_matiere |-> <<>>,
     statistiques_par_matiere |-> <<>>,
     analyse_matiere |->
        [code_mp |-> code_mp,
         total_besoins |-> 0,
         total_couverts |-> 0,
         taux_couverture |-> Float(100),
         quantite_besoin_totale |-> 0,
         quantite_stock_internes |-> 0,
         stocks_externes |-> <<>>,
         quantite_receptions |-> 0,
         quantite_rappatriements |-> 0,
         quantite_totale_disponible |-> 0,
         stock_couverture_disponible |-> 0,
         stock_manquant |-> 0,
         couverture_par_besoin |-> <<>>,
         analyse_chronologique |->
            [couverture_chronologique |-> <<>>,
             premier_besoin_non_couvert |-> None,
             stock_initial |-> 0,
             stock_final |-> 0]]]

\* AnalyseService._create_empty_analyse
CreateEmptyAnalyse(code_mp, date_initiale, horizon_days) ==
    [horizon_jours |-> horizon_days,
     date_initiale |-> date_initiale,
     date_limite |-> date_initiale + horizon_days * TicksPerDay,
     analyse_par_matiere |-> <<>>,
     statistiques_par_matiere |-> <<>>,
     analyse_matiere |->
        [code_mp |-> code_mp,
         total_besoins |-> 0,
         total_couverts |-> 0,
         taux_couverture |-> Float(0),
         quantite_besoin_totale |-> 0,
         quantite_stock_internes |-> 0,
         stocks_externes |-> <<>>,
         quantite_receptions |-> 0,
         quantite_rappatriements |-> 0,
         quantite_totale_disponible |-> 0,
         stock_couverture_disponible |-> 0,
         stock_manquant |-> 0,
         couverture_par_besoin |-> <<>>,
         analyse_chronologique |->
            [couverture_chronologique |-> <<>>,
             premier_besoin_non_couvert |-> None,
             stock_initial |-> 0,
             stock_final |-> 0]]]

\* AnalyseService.analyze_matiere_coverage
AnalyzeMatiereCoverageOf(code_mp, date_initiale, horizon_days) ==
    LET besoins_m == GetBesoinsActuelsByMatiereAndHorizon(
                         code_mp, horizon_days, date_initiale)
        analyse_matiere == AnalyzeSingleMatiere(code_mp, besoins_m)
    IN  IF besoins_m = <<>>
        THEN CreateEmptyAnalyse(code_mp, date_initiale, horizon_days)
        ELSE IF analyse_matiere = ZeroDivisionError THEN ZeroDivisionError
        ELSE [horizon_jours |-> horizon_days,
              date_initiale |-> date_initiale,
              date_limite |-> date_initiale + horizon_days * TicksPerDay,
              analyse_par_matiere |-> <<>>,
              statistiques_par_matiere |-> <<>>,
              analyse_matiere |-> CreateAnalyseMatierePydantic(analyse_matiere)]

\* the keys of a dict filled in the order of seq: the codes of seq, each
\* once, by first appearance
RECURSIVE FirstSeen(_)
FirstSeen(seq) ==
    IF seq = <<>> THEN <<>>
    ELSE LET front == FirstSeen(SubSeq(seq, 1, Len(seq) - 1))
             code_mp == seq[Len(seq)].code_mp
         IN  IF \E i \in 1..Len(front) : front[i] = code_mp
             THEN front
             ELSE Append(front, code_mp)

\* BesoinsRepository.group_besoins_by_matiere: a dict, its keys in
\* insertion order, each value the events of the code in the order of the list
GroupBesoinsByMatiere(besoins_l) ==
    [keys |-> FirstSeen(besoins_l),
     items |-> [code_mp \in {besoins_l[i].code_mp : i \in 1..Len(besoins_l)} |->
                  LET Keep(besoin) == besoin.code_mp = code_mp
                  IN  SelectSeq(besoins_l, Keep)]]

\* BesoinsRepository.get_besoins_actuels_by_horizon_grouped
GetBesoinsActuelsByHorizonGrouped(horizon_days, date_initiale) ==
    GroupBesoinsByMatiere(GetBesoinsActuelsByHorizon(horizon_days, date_initiale))

\* the StatistiquesMatiere a code starts with
StatistiquesMatiereVide ==
    [total_besoins |-> 0, total_couverts |-> 0, total_partiels |-> 0,
     total_non_couverts |-> 0, quantite_besoin_totale |-> 0,
     quantite_disponible_totale |-> 0, stocks_externes |-> <<>>,
     quantite_rappatriements |-> 0, taux_couverture |-> Float(0),
     taux_partiel |-> Float(0), taux_non_couvert |-> Float(0)]

\* the first loop of _calculate_matiere_stats_from_couvertures
RECURSIVE StatsLoop(_, _)
StatsLoop(couvertures, stats_par_matiere) ==
    IF couvertures = <<>> THEN stats_par_matiere
    ELSE LET couverture == Head(couvertures)
             code_mp == couverture.besoin.code_mp
             stats == IF code_mp \in DOMAIN stats_par_matiere
                      THEN stats_par_matiere[code_mp]
                      ELSE StatistiquesMatiereVide
             suivant ==
                [stats EXCEPT
                    !.total_besoins = @ + 1,
                    !.quantite_besoin_totale = @ + couverture.quantite_besoin,
                    !.quantite_disponible_totale =
                        @ + couverture.quantite_disponible_couverture,
                    !.quantite_rappatriements =
                        IF @ = 0 THEN couverture.quantite_rappatriements ELSE @,
                    !.stocks_externes =
                        IF @ = <<>> THEN couverture.stocks_externes ELSE @,
                    !.total_couverts =
                        IF couverture.etat_couverture = COUVERT THEN @ + 1 ELSE @,
                    !.total_partiels =
                        IF couverture.etat_couverture = PARTIEL THEN @ + 1 ELSE @,
                    !.total_non_couverts =
                        IF couverture.etat_couverture \notin {COUVERT, PARTIEL}
                        THEN @ + 1 ELSE @]
         IN  StatsLoop(Tail(couvertures),
                       [c \in DOMAIN stats_par_matiere \cup {code_mp} |->
                           IF c = code_mp THEN suivant ELSE stats_par_matiere[c]])

\* AnalyseService._calculate_matiere_stats_from_couvertures
CalculateMatiereStatsFromCouvertures(couvertures) ==
    LET stats_par_matiere == StatsLoop(couvertures, <<>>)
    IN  [code_mp \in DOMAIN stats_par_matiere |->
            LET stats == stats_par_matiere[code_mp]
            IN  IF stats.total_besoins > 0
                THEN [stats EXCEPT
                        !.taux_couverture =
                            Div(stats.total_couverts * 100, stats.total_besoins),
                        !.taux_partiel =
                            Div(stats.total_partiels * 100, stats.total_besoins),
                        !.taux_non_couvert =
                            Div(stats.total_non_couverts * 100, stats.total_besoins)]
                ELSE stats]

\* the values of a dict, in the order of its keys, concatenated
RECURSIVE ExtendAll(_, _)
ExtendAll(keys, lists) ==
    IF keys = <<>> THEN <<>>
    ELSE lists[Head(keys)] \o ExtendAll(Tail(keys), lists)

\* AnalyseService.analyze_coverage
AnalyzeCoverageOf(date_initiale, horizon_days) ==
    LET besoins_par_matiere ==
            GetBesoinsActuelsByHorizonGrouped(horizon_days, date_initiale)
        codes == DOMAIN besoins_par_matiere.items
        analyse_data == [code_mp \in codes |->
            AnalyzeSingleMatiere(code_mp, besoins_par_matiere.items[code_mp])]
        analyses_matiere == [code_mp \in codes |->
            CreateAnalyseMatierePydantic(analyse_data[code_mp])]
        all_couvertures ==
            ExtendAll(besoins_par_matiere.keys,
                      [code_mp \in codes |->
                          analyses_matiere[code_mp].couverture_par_besoin])
    IN  IF \E code_mp \in codes : analyse_data[code_mp] = ZeroDivisionError
        THEN ZeroDivisionError
        ELSE [horizon_jours |-> horizon_days,
              date_initiale |-> date_initiale,
              date_limite |-> date_initiale + horizon_days * TicksPerDay,
              analyse_par_matiere |-> analyses_matiere,
              statistiques_par_matiere |->
                  CalculateMatiereStatsFromCouvertures(all_couvertures),
              analyse_matiere |-> None]

\* the copy written back with the state the stored event has
BesoinCopie_KeepsEtat(result) ==
    [id |-> IF result.besoin.id = <<>>
            THEN BesoinId(result.besoin.code_mp, result.besoin.echeance,
                          result.besoin.lot)
            ELSE result.besoin.id,
     code_mp |-> result.besoin.code_mp,
     quantite |-> result.besoin.quantite,
     echeance |-> result.besoin.echeance,
     etat |-> result.besoin.etat,
     lot |-> result.besoin.lot]

\* the Besoin built for one result of the allocation in analyze_besoins;
\* Besoin.__init__ builds an id when the one given is empty
BesoinCopie(result) ==
    [id |-> IF result.besoin.id = <<>>
            THEN BesoinId(result.besoin.code_mp, result.besoin.echeance,
                          result.besoin.lot)
            ELSE result.besoin.id,
     code_mp |-> result.besoin.code_mp,
     quantite |-> result.besoin.quantite,
     echeance |-> result.besoin.echeance,
     etat |-> StringToEtat(result.etat_couverture),
     lot |-> result.besoin.lot]

\* AnalyseService.analyze_besoins
AnalyzeBesoinsOf ==
    LET all_besoins == GetBesoinsByEtat(INCONNU)
        besoins_par_matiere == GroupBesoinsByMatiere(all_besoins)
        codes == DOMAIN besoins_par_matiere.items
        copies == [code_mp \in codes |->
            LET stock_disponible == GetCoverageStockForMatiere(code_mp)
                couverture_results ==
                    AnalyzeMatiereChronologicalCoverage(
                        besoins_par_matiere.items[code_mp], stock_disponible)
            IN  [k \in 1..Len(couverture_results) |->
                    BesoinCopie(couverture_results[k])]]
        besoins_analyses == ExtendAll(besoins_par_matiere.keys, copies)
    IN  SortedByEcheance(besoins_analyses)

----------------------------------------------------------------------------
(* The allocator on one material: _analyze_single_matiere applied to every  *)
(* demand list of CodeA within the bounds, over every internal stock level. *)

\* demand lists of CodeA, the i-th event carrying the lot i
DemandLists ==
    UNION {[1..n -> [echeance : 0..MaxDate, quantite : 0..MaxQuantite]] :
              n \in 0..MaxBesoins}

InitAlloc ==
    /\ besoins = <<>>
    /\ receptions = <<Reception(CodeA, 1, EN_COURS)>>
    /\ rappatriements =
          <<[numero_transfert |-> 1,
             produits |-> <<ProduitRappatriement(<<"X">>, <<>>, 1)>>]>>
    /\ \E q \in 0..MaxStock :
          stocks = <<Stock(CodeA, q, MagInterne), Stock(CodeA, 1, MagExterne),
                     Stock(CodeA, 1, Mag30), Stock(CodeB, 1, MagInterne)>>
    /\ \E l \in DemandLists :
          besoins_matiere =
              [i \in 1..Len(l) |->
                  Besoin(CodeA, l[i].quantite, l[i].echeance, INCONNU, i)]
    /\ analyse = None
    /\ coverage_stock = None
    /\ resultat = None
    /\ requetes = <<>>

\* one call of _analyze_single_matiere and its conversion, as
\* analyze_matiere_coverage and analyze_coverage chain them
RunAnalyzeSingleMatiere ==
    /\ analyse = None
    /\ LET analyse_matiere == AnalyzeSingleMatiere(CodeA, besoins_matiere)
       IN  analyse' = IF analyse_matiere = ZeroDivisionError
                      THEN ZeroDivisionError
                      ELSE CreateAnalyseMatierePydantic(analyse_matiere)
    /\ UNCHANGED <<besoins, stocks, receptions, rappatriements,
                   besoins_matiere, coverage_stock, resultat, requetes>>

NextAlloc == RunAnalyzeSingleMatiere

SpecAlloc == InitAlloc /\ [][NextAlloc]_vars

\* the same runs, the supply of CodeA being split between its internal
\* stock and a shipment line that names it
InitAllocShipment ==
    /\ besoins = <<>>
    /\ receptions = <<Reception(CodeA, 1, EN_COURS)>>
    /\ \E t \in 0..MaxStock :
          /\ stocks = <<Stock(CodeA, t \div 2, MagInterne),
                        Stock(CodeA, 1, MagExterne)>>
          /\ rappatriements =
                <<[numero_transfert |-> 1,
                   produits |-> <<ProduitRappatriement(<<"A", "1", "0">>, <<>>,
                                                       t - (t \div 2))>>]>>
    /\ \E l \in DemandLists :
          besoins_matiere =
              [i \in 1..Len(l) |->
                  Besoin(CodeA, l[i].quantite, l[i].echeance, INCONNU, i)]
    /\ analyse = None
    /\ coverage_stock = None
    /\ resultat = None
    /\ requetes = <<>>

SpecAllocShipment == InitAllocShipment /\ [][NextAlloc]_vars

----------------------------------------------------------------------------
(* The service over loaded repositories.  The repositories load what the    *)
(* storage holds when they are constructed, so a content within the bounds  *)
(* is an initial state: every stock and shipment content under the demand   *)
(* of the two materials, every demand list under the short contents.        *)

\* 2^n
RECURSIVE Pow2(_)
Pow2(n) == IF n = 0 THEN 1 ELSE 2 * Pow2(n - 1)

\* stock records: the i-th record holds the quantity 2^(i-1)
StockKinds ==
    {[code_mp |-> CodeA, magasin |-> MagInterne],
     [code_mp |-> CodeA, magasin |-> MagExterne],
     [code_mp |-> CodeA, magasin |-> Mag30],
     [code_mp |-> CodeB, magasin |-> MagInterne]}

StockLists == UNION {[1..n -> StockKinds] : n \in 0..MaxStocks}

\* shipment lines: the k-th line weighs 2^(k-1)
ProduitKinds ==
    {[code_prdt |-> <<"A", "1", "0">>, designation_prdt |-> <<>>],
     [code_prdt |-> <<"X", "a", "1">>, designation_prdt |-> <<>>],
     [code_prdt |-> <<"X">>, designation_prdt |-> <<"a", "1", "0">>],
     [code_prdt |-> <<"X">>, designation_prdt |-> <<>>]}

ProduitLists == UNION {[1..n -> ProduitKinds] : n \in 0..MaxProduits}

\* a due date beyond every horizon
FarDate == (MaxHorizon + 1) * TicksPerDay + 2

\* demand of the two materials, stored out of due date order
BesoinsDeuxMatieres ==
    <<Besoin(CodeB, 1, TicksPerDay + 1, INCONNU, 1),
      Besoin(CodeA, 2, 1, INCONNU, 0),
      Besoin(CodeA, 1, 0, INCONNU, 1)>>

\* the demand lists the storage may hold
BesoinLists ==
    {<<>>,
     <<Besoin(CodeA, 2, 1, INCONNU, 0)>>,
     BesoinsDeuxMatieres,
     <<Besoin(CodeA, 2, FarDate, INCONNU, 0),
       Besoin(CodeA, 1, 1, COUVERT, 2),
       Besoin(CodeB, 1, 0, INCONNU, 0),
       Besoin(CodeA, 1, 1, INCONNU, 1)>>}

Init ==
    /\ besoins \in BesoinLists
    /\ \E l \in StockLists :
          stocks = [i \in 1..Len(l) |->
                       Stock(l[i].code_mp, Pow2(i - 1), l[i].magasin)]
    /\ \E l \in ProduitLists :
          rappatriements \in
             {<<>>,
              <<[numero_transfert |-> 1,
                 produits |-> [k \in 1..Len(l) |->
                     ProduitRappatriement(l[k].code_prdt, l[k].designation_prdt,
                                          Pow2(k - 1))]]>>}
    /\ \/ besoins = BesoinsDeuxMatieres
       \/ /\ Len(stocks) <= 1
          /\ \A r \in 1..Len(rappatriements) :
                Len(rappatriements[r].produits) <= 1
    /\ receptions = <<Reception(CodeA, 1, EN_COURS), Reception(CodeB, 1, TERMINEE)>>
    /\ besoins_matiere = <<>>
    /\ analyse = None
    /\ coverage_stock = None
    /\ resultat = None
    /\ requetes = <<>>

\* _get_coverage_stock_for_matiere(code_mp), as analyze_besoins calls it
RunGetCoverageStock(code_mp) ==
    /\ coverage_stock' = [code_mp |-> code_mp,
                          value |-> GetCoverageStockForMatiere(code_mp)]
    /\ UNCHANGED <<besoins, stocks, receptions, rappatriements,
                   besoins_matiere, analyse, resultat, requetes>>

\* the stored list itself is sorted on the due date, in place
AnalyzeMatiereCoverage_SortsStore(code_mp, date_initiale, horizon_days) ==
    /\ resultat' = [op |-> "analyze_matiere_coverage", code_mp |-> code_mp,
                    value |-> AnalyzeMatiereCoverageOf(code_mp, date_initiale,
                                                       horizon_days)]
    /\ besoins' = SortedByEcheance(besoins)
    /\ UNCHANGED <<stocks, receptions, rappatriements,
                   besoins_matiere, analyse, coverage_stock, requetes>>

\* GET /analyse/matiere/{code_mp}
AnalyzeMatiereCoverage(code_mp, date_initiale, horizon_days) ==
    /\ resultat' = [op |-> "analyze_matiere_coverage", code_mp |-> code_mp,
                    value |-> AnalyzeMatiereCoverageOf(code_mp, date_initiale,
                                                       horizon_days)]
    /\ UNCHANGED <<besoins, stocks, receptions, rappatriements,
                   besoins_matiere, analyse, coverage_stock, requetes>>

\* GET /analyse/
AnalyzeCoverage(date_initiale, horizon_days) ==
    /\ resultat' = [op |-> "analyze_coverage",
                    value |-> AnalyzeCoverageOf(date_initiale, horizon_days)]
    /\ UNCHANGED <<besoins, stocks, receptions, rappatriements,
                   besoins_matiere, analyse, coverage_stock, requetes>>

\* the call writes the computed states back to the stored events
AnalyzeBesoins_WritesBack ==
    /\ resultat' = [op |-> "analyze_besoins", value |-> AnalyzeBesoinsOf]
    /\ besoins' = [i \in 1..Len(besoins) |->
                      IF besoins[i].etat = INCONNU
                      THEN [besoins[i] EXCEPT !.etat = COUVERT]
                      ELSE besoins[i]]
    /\ UNCHANGED <<stocks, receptions, rappatriements,
                   besoins_matiere, analyse, coverage_stock, requetes>>

\* GET /analyse/besoins
AnalyzeBesoins ==
    /\ resultat' = [op |-> "analyze_besoins", value |-> AnalyzeBesoinsOf]
    /\ UNCHANGED <<besoins, stocks, receptions, rappatriements,
                   besoins_matiere, analyse, coverage_stock, requetes>>

\* the supply helper on its own, over the same stores
NextSupply ==
    \E code_mp \in {CodeA, CodeB, CodeU} : RunGetCoverageStock(code_mp)

SpecSupply == Init /\ [][NextSupply]_vars

Next ==
    \/ \E code_mp \in {CodeA, CodeB, CodeU}, date_initiale \in {0, 1},
          horizon_days \in 1..MaxHorizon :
          AnalyzeMatiereCoverage(code_mp, date_initiale, horizon_days)
    \/ \E date_initiale \in {0, 1}, horizon_days \in 1..MaxHorizon :
          AnalyzeCoverage(date_initiale, horizon_days)
    \/ AnalyzeBesoins

Spec == Init /\ [][Next]_vars

----------------------------------------------------------------------------
(* The service while files of receipts and of stock are imported that     *)
(* change the stock of the EX warehouses only.                            *)

\* receipt files
ReceptionLists ==
    {<<>>,
     <<Reception(CodeA, 1, EN_COURS), Reception(CodeB, 1, TERMINEE)>>,
     <<Reception(CodeA, 2, EN_COURS)>>}

\* the stock records of a list of StockLists
StocksOf(l) ==
    [i \in 1..Len(l) |-> Stock(l[i].code_mp, Pow2(i - 1), l[i].magasin)]

\* the stock files that hold, outside the EX warehouses, the records stored
StockFiles ==
    LET Keep(stock) == ~StartsWith(stock.magasin, <<"E", "X">>)
    IN  {l \in StockLists :
            SelectSeq(StocksOf(l), Keep) = SelectSeq(stocks, Keep)}

InitStore ==
    /\ besoins \in {BesoinsDeuxMatieres, <<Besoin(CodeA, 2, 1, INCONNU, 0)>>}
    /\ \E l \in StockLists : stocks = StocksOf(l)
    /\ rappatriements =
          <<[numero_transfert |-> 1,
             produits |-> <<ProduitRappatriement(<<"A", "1", "0">>, <<>>, 1)>>]>>
    /\ receptions = <<>>
    /\ besoins_matiere = <<>>
    /\ analyse = None
    /\ coverage_stock = None
    /\ resultat = None
    /\ requetes = <<>>

\* POST /stocks/import: the repository is flushed, then every record of the
\* file is appended; the records of a file have ids that differ
ImportStocks(l) ==
    /\ stocks' = <<>> \o StocksOf(l)
    /\ UNCHANGED <<besoins, receptions, rappatriements,
                   besoins_matiere, analyse, coverage_stock, resultat, requetes>>

\* POST /receptions/import: the repository is flushed, then every record of
\* the file is appended; the records of a file have ids that differ
ImportReceptions(l) ==
    /\ receptions' = <<>> \o l
    /\ UNCHANGED <<besoins, stocks, rappatriements,
                   besoins_matiere, analyse, coverage_stock, resultat, requetes>>

NextStore ==
    \/ \E l \in StockFiles : ImportStocks(l)
    \/ \E l \in ReceptionLists : ImportReceptions(l)
    \/ \E code_mp \in {CodeA, CodeB}, date_initiale \in {0, 1},
          horizon_days \in 1..MaxHorizon :
          AnalyzeMatiereCoverage(code_mp, date_initiale, horizon_days)
    \/ \E date_initiale \in {0, 1}, horizon_days \in 1..MaxHorizon :
          AnalyzeCoverage(date_initiale, horizon_days)
    \/ AnalyzeBesoins

SpecStore == InitStore /\ [][NextStore]_vars

----------------------------------------------------------------------------
(* Requests served at the same time: each request runs its handler on its   *)
(* own AnalyseService, step by step, over the repositories all of them read *)

\* the local variables of a request that runs no handler
Idle ==
    [op |-> "", pc |-> "idle", code_mp |-> <<>>, date_initiale |-> 0,
     horizon_days |-> 0,
     besoins_par_matiere |-> [keys |-> <<>>, items |-> <<>>],
     keys |-> <<>>, besoins_matiere |-> <<>>, besoins_analyses |-> <<>>,
     result |-> None]

\* one list for the copies of every call
Accumulator_Shared(r) == 1

\* the list besoins_analyses of the call of request r: a local of the call
Accumulator(r) == r

InitConc ==
    /\ besoins \in {BesoinsDeuxMatieres,
                    <<Besoin(CodeA, 2, FarDate, INCONNU, 0),
                      Besoin(CodeA, 1, 1, COUVERT, 2),
                      Besoin(CodeB, 1, 0, INCONNU, 0),
                      Besoin(CodeA, 1, 1, INCONNU, 1)>>}
    /\ \E l \in StockLists : Len(l) <= 1 /\ stocks = StocksOf(l)
    /\ rappatriements =
          <<[numero_transfert |-> 1,
             produits |-> <<ProduitRappatriement(<<"A", "1", "0">>, <<>>, 1)>>]>>
    /\ receptions = <<>>
    /\ besoins_matiere = <<>>
    /\ analyse = None
    /\ coverage_stock = None
    /\ resultat = None
    /\ requetes = [r \in 1..MaxRequetes |-> Idle]

\* analyze_besoins up to its loop: the unknown events are read and grouped,
\* the list of the copies starts empty
BeginAnalyzeBesoins(r) ==
    /\ requetes[r].pc \in {"idle", "done"}
    /\ LET besoins_par_matiere == GroupBesoinsByMatiere(GetBesoinsByEtat(INCONNU))
       IN  requetes' =
              [requetes EXCEPT
                  ![r] = [Idle EXCEPT !.op = "analyze_besoins",
                                      !.pc = "loop",
                                      !.besoins_par_matiere = besoins_par_matiere,
                                      !.keys = besoins_par_matiere.keys],
                  ![Accumulator(r)].besoins_analyses = <<>>]
    /\ UNCHANGED <<besoins, stocks, receptions, rappatriements,
                   besoins_matiere, analyse, coverage_stock, resultat>>

\* one turn of the loop of analyze_besoins: the supply of the next code is
\* read, its events are allocated and their copies appended
StepAnalyzeBesoins(r) ==
    /\ requetes[r].pc = "loop"
    /\ requetes[r].keys # <<>>
    /\ LET code_mp == Head(requetes[r].keys)
           stock_disponible == GetCoverageStockForMatiere(code_mp)
           couverture_results ==
               AnalyzeMatiereChronologicalCoverage(
                   requetes[r].besoins_par_matiere.items[code_mp],
                   stock_disponible)
           copies == [k \in 1..Len(couverture_results) |->
                         BesoinCopie(couverture_results[k])]
       IN  requetes' =
              [requetes EXCEPT
                  ![r].keys = Tail(@),
                  ![Accumulator(r)].besoins_analyses = @ \o copies]
    /\ UNCHANGED <<besoins, stocks, receptions, rappatriements,
                   besoins_matiere, analyse, coverage_stock, resultat>>

\* the return of analyze_besoins: the copies, sorted by due date
ReturnAnalyzeBesoins(r) ==
    /\ requetes[r].pc = "loop"
    /\ requetes[r].keys = <<>>
    /\ requetes' =
          [requetes EXCEPT
              ![r].pc = "done",
              ![r].result =
                  SortedByEcheance(requetes[Accumulator(r)].besoins_analyses)]
    /\ UNCHANGED <<besoins, stocks, receptions, rappatriements,
                   besoins_matiere, analyse, coverage_stock, resultat>>

\* analyze_matiere_coverage up to its test: the events of the code are read
BeginAnalyzeMatiereCoverage(r, code_mp, date_initiale, horizon_days) ==
    /\ requetes[r].pc \in {"idle", "done"}
    /\ requetes' =
          [requetes EXCEPT
              ![r] = [Idle EXCEPT
                         !.op = "analyze_matiere_coverage",
                         !.pc = "analyse",
                         !.code_mp = code_mp,
                         !.date_initiale = date_initiale,
                         !.horizon_days = horizon_days,
                         !.besoins_matiere =
                             GetBesoinsActuelsByMatiereAndHorizon(
                                 code_mp, horizon_days, date_initiale)]]
    /\ UNCHANGED <<besoins, stocks, receptions, rappatriements,
                   besoins_matiere, analyse, coverage_stock, resultat>>

\* the rest of analyze_matiere_coverage: the empty analysis, or the analysis
\* of the events read
ReturnAnalyzeMatiereCoverage(r) ==
    /\ requetes[r].pc = "analyse"
    /\ LET q == requetes[r]
           analyse_matiere == AnalyzeSingleMatiere(q.code_mp, q.besoins_matiere)
           value ==
               IF q.besoins_matiere = <<>>
               THEN CreateEmptyAnalyse(q.code_mp, q.date_initiale, q.horizon_days)
               ELSE IF analyse_matiere = ZeroDivisionError
               THEN ZeroDivisionError
               ELSE [horizon_jours |-> q.horizon_days,
                     date_initiale |-> q.date_initiale,
                     date_limite |->
                         q.date_initiale + q.horizon_days * TicksPerDay,
                     analyse_par_matiere |-> <<>>,
                     statistiques_par_matiere |-> <<>>,
                     analyse_matiere |->
                         CreateAnalyseMatierePydantic(analyse_matiere)]
       IN  requetes' = [requetes EXCEPT ![r].pc = "done", ![r].result = value]
    /\ UNCHANGED <<besoins, stocks, receptions, rappatriements,
                   besoins_matiere, analyse, coverage_stock, resultat>>

NextConc ==
    \E r \in 1..MaxRequetes :
        \/ BeginAnalyzeBesoins(r)
        \/ StepAnalyzeBesoins(r)
        \/ ReturnAnalyzeBesoins(r)
        \/ \E code_mp \in {CodeA, CodeB}, horizon_days \in 1..MaxHorizon :
              BeginAnalyzeMatiereCoverage(r, code_mp, 0, horizon_days)
        \/ ReturnAnalyzeMatiereCoverage(r)

SpecConc == InitConc /\ [][NextConc]_vars

----------------------------------------------------------------------------
(* The demand repository under the operations that write it *)

TypeError == [raised |-> "TypeError"]
ValueError == [raised |-> "ValueError"]

\* the outcome of a call that returns or raises: the exception, if any, and
\* the list the call has built
Returns(data) == [raised |-> "", data |-> data]
Raises(exception) == [raised |-> exception.raised, data |-> <<>>]

\* the events a client sends to create or to put: no id given, so that
\* Besoin.__init__ builds it
BesoinItems ==
    {Besoin(CodeA, 1, echeance, INCONNU, lot) :
        echeance \in {0, TicksPerDay}, lot \in {0, 1}}
    \cup {Besoin(CodeA, 2, 0, INCONNU, 0)}

\* a cell of the planning sheet: a quantity of a code on a day
Cell(code_mp, echeance, quantite) ==
    [code_mp |-> code_mp, echeance |-> echeance, quantite |-> quantite]

\* a sheet that pandas reads, with its cells
Sheet(cells) == [readable |-> TRUE, cells |-> cells]

\* a file that pandas cannot read
Undecodable == [readable |-> FALSE, cells |-> <<>>]

\* the files uploaded
BesoinFiles ==
    {Undecodable,
     Sheet(<<>>),
     Sheet(<<Cell(CodeA, 0, 1)>>),
     Sheet(<<Cell(CodeA, 0, 1), Cell(CodeA, 0, 2)>>),
     Sheet(<<Cell(CodeA, 0, 1), Cell(CodeA, TicksPerDay, 0),
             Cell(CodeA, TicksPerDay, 2)>>)}

\* XLSXBesoinsDecoder.decode_file: one unknown event without lot for every
\* cell of a positive quantity; a file that cannot be read raises
DecodeFile(file) ==
    IF ~file.readable THEN Raises(ValueError)
    ELSE LET Keep(cell) == cell.quantite > 0
             cells == SelectSeq(file.cells, Keep)
         IN  Returns([k \in 1..Len(cells) |->
                          Besoin(cells[k].code_mp, cells[k].quantite,
                                 cells[k].echeance, INCONNU, 0)])

\* BaseRepository.get_by_id on the list data: the first item of the id
GetById(data, id_value) ==
    IF \E i \in 1..Len(data) : data[i].id = id_value
    THEN LET i == CHOOSE i \in 1..Len(data) :
                     /\ data[i].id = id_value
                     /\ \A j \in 1..(i - 1) : data[j].id # id_value
         IN  data[i]
    ELSE None

\* the loop of BaseRepository.import_from_file: an item whose id is
\* stored is ignored, the others are appended
RECURSIVE AppendNew(_, _)
AppendNew(data, decoded_items) ==
    IF decoded_items = <<>> THEN data
    ELSE LET item == Head(decoded_items)
         IN  IF item.id # <<>> /\ GetById(data, item.id) # None
             THEN AppendNew(data, Tail(decoded_items))
             ELSE AppendNew(Append(data, item), Tail(decoded_items))

\* a call repo.import_from_file(*args) on a BesoinsRepository holding data:
\* the method takes the path and nothing else; the value is the list data
\* after the call, or the exception raised
BesoinsImportFromFile(args, data) ==
    IF Len(args) # 1 THEN Raises(TypeError)
    ELSE LET decoded_items == DecodeFile(args[1])
         IN  IF decoded_items.raised # "" THEN decoded_items
             ELSE Returns(AppendNew(data, decoded_items.data))

\* DataService.import_besoins: the list data at the end and the dict returned
ImportBesoinsOf(file) ==
    LET besoins_avant == Len(besoins)
        flushed == <<>>
        imported == BesoinsImportFromFile(<<file, "">>, flushed)
    IN  IF imported.raised # ""
        THEN [data |-> flushed, value |-> [statut |-> "error"]]
        ELSE [data |-> imported.data,
              value |-> [statut |-> "success",
                         besoins_avant_flush |-> besoins_avant,
                         besoins_importes |-> Len(imported.data)]]

InitRepo ==
    /\ besoins \in {<<>>, <<Besoin(CodeA, 1, 0, INCONNU, 0)>>}
    /\ stocks = <<>>
    /\ receptions = <<>>
    /\ rappatriements = <<>>
    /\ besoins_matiere = <<>>
    /\ analyse = None
    /\ coverage_stock = None
    /\ resultat = None
    /\ requetes = <<>>

\* POST /besoins/import
ImportBesoins(file) ==
    /\ besoins' = ImportBesoinsOf(file).data
    /\ resultat' = [op |-> "import_besoins", file |-> file,
                    value |-> ImportBesoinsOf(file).value]
    /\ UNCHANGED <<stocks, receptions, rappatriements,
                   besoins_matiere, analyse, coverage_stock, requetes>>

\* BesoinsRepository.import_from_file(file_path)
ImportFromFile(file) ==
    /\ LET imported == BesoinsImportFromFile(<<file>>, besoins)
       IN  IF imported.raised # ""
           THEN /\ besoins' = besoins
                /\ resultat' = [op |-> "import_from_file", value |-> ValueError]
           ELSE /\ Len(imported.data) <= MaxRepo
                /\ besoins' = imported.data
                /\ resultat' = [op |-> "import_from_file", value |-> None]
    /\ UNCHANGED <<stocks, receptions, rappatriements,
                   besoins_matiere, analyse, coverage_stock, requetes>>

\* POST /besoins/: BaseRepository.create
CreateBesoin(item) ==
    /\ Len(besoins) < MaxRepo
    /\ IF item.id # <<>> /\ GetById(besoins, item.id) # None
       THEN /\ besoins' = besoins
            /\ resultat' = [op |-> "create", value |-> ValueError]
       ELSE /\ besoins' = Append(besoins, item)
            /\ resultat' = [op |-> "create", value |-> item]
    /\ UNCHANGED <<stocks, receptions, rappatriements,
                   besoins_matiere, analyse, coverage_stock, requetes>>

\* PUT /besoins/{besoin_id}: BaseRepository.update puts the item sent in
\* the place of the first item of the id
UpdateBesoin(besoin_id, updated_item) ==
    /\ IF GetById(besoins, besoin_id) # None
       THEN LET i == CHOOSE i \in 1..Len(besoins) :
                        /\ besoins[i].id = besoin_id
                        /\ \A j \in 1..(i - 1) : besoins[j].id # besoin_id
            IN  /\ besoins' = [besoins EXCEPT ![i] = updated_item]
                /\ resultat' = [op |-> "update", value |-> updated_item]
       ELSE /\ besoins' = besoins
            /\ resultat' = [op |-> "update", value |-> None]
    /\ UNCHANGED <<stocks, receptions, rappatriements,
                   besoins_matiere, analyse, coverage_stock, requetes>>

\* DELETE /besoins/{besoin_id}: BaseRepository.delete removes the first
\* item of the id
DeleteBesoin(besoin_id) ==
    /\ IF GetById(besoins, besoin_id) # None
       THEN LET i == CHOOSE i \in 1..Len(besoins) :
                        /\ besoins[i].id = besoin_id
                        /\ \A j \in 1..(i - 1) : besoins[j].id # besoin_id
            IN  /\ besoins' = SubSeq(besoins, 1, i - 1)
                                 \o SubSeq(besoins, i + 1, Len(besoins))
                /\ resultat' = [op |-> "delete", value |-> TRUE]
       ELSE /\ besoins' = besoins
            /\ resultat' = [op |-> "delete", value |-> FALSE]
    /\ UNCHANGED <<stocks, receptions, rappatriements,
                   besoins_matiere, analyse, coverage_stock, requetes>>

\* DELETE /besoins/: BaseRepository.flush
FlushBesoins ==
    /\ besoins' = <<>>
    /\ resultat' = [op |-> "flush", value |-> None]
    /\ UNCHANGED <<stocks, receptions, rappatriements,
                   besoins_matiere, analyse, coverage_stock, requetes>>

NextRepo ==
    \/ \E file \in BesoinFiles : ImportBesoins(file)
    \/ \E file \in BesoinFiles : ImportFromFile(file)
    \/ \E item \in BesoinItems : CreateBesoin(item)
    \/ \E item, updated_item \in BesoinItems :
          UpdateBesoin(item.id, updated_item)
    \/ \E item \in BesoinItems : DeleteBesoin(item.id)
    \/ FlushBesoins

SpecRepo == InitRepo /\ [][NextRepo]_vars

----------------------------------------------------------------------------
(* The demand repository under its read queries *)

\* the loop of get_besoins_aggregated_by_timelapse over the events filtered:
\* data is the list of the repository, whose objects the filter hands out;
\* restants and aggregated hold positions of data, that is, references to
\* its objects
RECURSIVE AggregateLoop(_, _, _)
AggregateLoop(data, restants, aggregated) ==
    IF restants = <<>> THEN [data |-> data, aggregated |-> aggregated]
    ELSE LET i == Head(restants)
             Similaire(j) == /\ data[j].code_mp = data[i].code_mp
                             /\ data[j].etat = data[i].etat
                             /\ data[j].lot = data[i].lot
             similaires == SelectSeq(aggregated, Similaire)
         IN  IF similaires # <<>>
             THEN AggregateLoop(
                      [data EXCEPT ![Head(similaires)].quantite =
                                       @ + data[i].quantite],
                      Tail(restants), aggregated)
             ELSE AggregateLoop(data, Tail(restants), Append(aggregated, i))

\* BesoinsRepository.get_besoins_aggregated_by_timelapse: the list data at
\* the end of the call and the list returned
GetBesoinsAggregatedByTimelapseOf(nb_jours, date_debut) ==
    LET date_fin == date_debut + nb_jours * TicksPerDay
        Keep(i) == /\ besoins[i].echeance >= date_debut
                   /\ besoins[i].echeance <= date_fin
        besoins_filtered == SelectSeq([i \in 1..Len(besoins) |-> i], Keep)
        fin == AggregateLoop(besoins, besoins_filtered, <<>>)
    IN  [data |-> fin.data,
         value |-> [k \in 1..Len(fin.aggregated) |->
                       fin.data[fin.aggregated[k]]]]

\* two events of CodeA that differ by their due date only, and one of CodeB
BesoinsSimilaires ==
    <<Besoin(CodeA, 1, 0, INCONNU, 0),
      Besoin(CodeA, 2, TicksPerDay, INCONNU, 0),
      Besoin(CodeB, 1, 1, INCONNU, 0)>>

InitQuery ==
    /\ besoins \in {BesoinsSimilaires, BesoinsDeuxMatieres}
    /\ \E l \in StockLists : Len(l) <= 1 /\ stocks = StocksOf(l)
    /\ rappatriements \in
          {<<>>,
           <<[numero_transfert |-> 1,
              produits |-> <<ProduitRappatriement(<<"A", "1", "0">>, <<>>, 1)>>]>>}
    /\ receptions = <<>>
    /\ besoins_matiere = <<>>
    /\ analyse = None
    /\ coverage_stock = None
    /\ resultat = None
    /\ requetes = <<>>

\* a call of get_besoins_aggregated_by_timelapse
GetBesoinsAggregatedByTimelapse(nb_jours, date_debut) ==
    /\ LET fin == GetBesoinsAggregatedByTimelapseOf(nb_jours, date_debut)
       IN  /\ \A i \in 1..Len(fin.data) : fin.data[i].quantite <= MaxCumul
           /\ besoins' = fin.data
           /\ resultat' = [op |-> "get_besoins_aggregated_by_timelapse",
                           value |-> fin.value]
    /\ UNCHANGED <<stocks, receptions, rappatriements,
                   besoins_matiere, analyse, coverage_stock, requetes>>

\* a call of get_besoins_by_etat
GetBesoinsByEtatQuery(etat) ==
    /\ resultat' = [op |-> "get_besoins_by_etat", value |-> GetBesoinsByEtat(etat)]
    /\ UNCHANGED <<besoins, stocks, receptions, rappatriements,
                   besoins_matiere, analyse, coverage_stock, requetes>>

NextQuery ==
    \/ \E nb_jours \in 1..MaxHorizon, date_debut \in {0, 1} :
          GetBesoinsAggregatedByTimelapse(nb_jours, date_debut)
    \/ \E etat \in {INCONNU, COUVERT} : GetBesoinsByEtatQuery(etat)
    \/ AnalyzeBesoins

SpecQuery == InitQuery /\ [][NextQuery]_vars

----------------------------------------------------------------------------
(* Vocabulary of the properties, written without the operators above *)

RECURSIVE Sigma(_, _)
Sigma(f, S) ==
    IF S = {} THEN 0
    ELSE LET x == CHOOSE y \in S : TRUE IN f[x] + Sigma(f, S \ {x})

\* the same character up to case
SameLetter(c, d) ==
    \/ c = d
    \/ {c, d} \in {{"A", "a"}, {"E", "e"}, {"X", "x"}, {"Z", "z"}}

\* code occurs in text, case-insensitively
OccursIn(code, text) ==
    \E off \in 0..Len(text) :
        /\ off + Len(code) <= Len(text)
        /\ \A k \in 1..Len(code) : SameLetter(code[k], text[off + k])

IsExterne(magasin) == Len(magasin) >= 2 /\ magasin[1] = "E" /\ magasin[2] = "X"

\* internal stock of a material: not in warehouse 30, not in an EX warehouse
InternalQuantity(code) ==
    LET S == {i \in 1..Len(stocks) :
                 /\ stocks[i].code_mp = code
                 /\ stocks[i].magasin # <<"3", "0">>
                 /\ ~IsExterne(stocks[i].magasin)}
    IN  Sigma([i \in S |-> stocks[i].quantite], S)

\* net quantity of the shipment lines matching a material
ShipmentQuantity(code) ==
    LET All == UNION {{<<r, k>> : k \in 1..Len(rappatriements[r].produits)} :
                         r \in 1..Len(rappatriements)}
        L == {x \in All :
                 LET r == x[1]
                     k == x[2]
                 IN  \/ OccursIn(code, rappatriements[r].produits[k].code_prdt)
                    \/ OccursIn(code, rappatriements[r].produits[k].designation_prdt)}
    IN  Sigma([x \in L |-> rappatriements[x[1]].produits[x[2]].poids_net], L)

CoverageSupply(code) == InternalQuantity(code) + ShipmentQuantity(code)

\* the analysis of the allocator run has returned normally
Returned == analyse # None /\ analyse # ZeroDivisionError
Cov == analyse.couverture_par_besoin
Chrono == analyse.analyse_chronologique
Trace == analyse.analyse_chronologique.couverture_chronologique

\* running supply just before the i-th analysed event
SupplyBefore(i) ==
    IF i = 1 THEN CoverageSupply(CodeA)
    ELSE Cov[i - 1].stock_restant_apres_consommation

----------------------------------------------------------------------------
(* Properties of the allocator, checked under SpecAlloc *)

\* C1: every event, in processing order, with running supply s and quantity
\* q: s >= q gives covered, available q, 100 percent, supply s - q; else
\* s > 0 gives partial, available s, s/q*100 percent, supply 0; else
\* uncovered, available 0, 0 percent, supply unchanged.
C1_StepRule ==
    Returned =>
        \A i \in 1..Len(Cov) :
            LET s == SupplyBefore(i)
                q == Cov[i].besoin.quantite
                r == Cov[i]
                pct == r.pourcentage_couverture
            IN  IF s >= q
                THEN /\ r.etat_couverture = COUVERT
                     /\ r.quantite_disponible_couverture = q
                     /\ pct.num = 100 * pct.den
                     /\ r.stock_restant_apres_consommation = s - q
                ELSE IF s > 0
                THEN /\ r.etat_couverture = PARTIEL
                     /\ r.quantite_disponible_couverture = s
                     /\ pct.num * q = s * 100 * pct.den
                     /\ r.stock_restant_apres_consommation = 0
                ELSE /\ r.etat_couverture = NON_COUVERT
                     /\ r.quantite_disponible_couverture = 0
                     /\ pct.num = 0
                     /\ r.stock_restant_apres_consommation = s

\* a run in which the three branches are all taken
C1_Witness ==
    /\ Returned
    /\ Len(Cov) = 3
    /\ Cov[1].etat_couverture = COUVERT
    /\ Cov[2].etat_couverture = PARTIEL
    /\ Cov[3].etat_couverture = NON_COUVERT
    /\ Cov[1].besoin.quantite > 0

\* position of an analysed event in the list that was supplied
Supplied(b) == CHOOSE k \in 1..Len(besoins_matiere) : besoins_matiere[k] = b

\* C2: events are processed by ascending due date, events with the same due
\* date in the order they were supplied, and every supplied event is
\* processed once; the trace follows the same order.
C2_DueDateOrder ==
    Returned =>
        /\ Len(Cov) = Len(besoins_matiere)
        /\ Len(Trace) = Len(besoins_matiere)
        /\ \A k \in 1..Len(besoins_matiere) :
              \E i \in 1..Len(Cov) : Cov[i].besoin = besoins_matiere[k]
        /\ \A i, j \in 1..Len(Cov) :
              i < j =>
                 /\ Cov[i].besoin.echeance <= Cov[j].besoin.echeance
                 /\ Cov[i].besoin.echeance = Cov[j].besoin.echeance
                       => Supplied(Cov[i].besoin) < Supplied(Cov[j].besoin)
        /\ \A i \in 1..Len(Trace) :
              /\ Trace[i].quantite_besoin = Cov[i].besoin.quantite
              /\ Trace[i].echeance = Cov[i].besoin.echeance \div TicksPerDay

\* a run whose input is out of order and holds two events with one due date
C2_Witness ==
    /\ Returned
    /\ Len(besoins_matiere) = 3
    /\ besoins_matiere[1].echeance > besoins_matiere[2].echeance
    /\ besoins_matiere[2].echeance = besoins_matiere[3].echeance
    /\ besoins_matiere[2].quantite # besoins_matiere[3].quantite

\* C3: the trace starts at the initial supply, chains supply_after into the
\* next supply_before, never increases, and ends at the final supply.
C3_TraceChain ==
    Returned =>
        /\ Chrono.stock_initial = CoverageSupply(CodeA)
        /\ Len(Trace) > 0 =>
              /\ Trace[1].stock_avant = CoverageSupply(CodeA)
              /\ Chrono.stock_final = Trace[Len(Trace)].stock_apres
        /\ \A i \in 1..Len(Trace) :
              /\ Trace[i].stock_apres <= Trace[i].stock_avant
              /\ i < Len(Trace) => Trace[i].stock_apres = Trace[i + 1].stock_avant

\* a trace of three steps along which the supply strictly decreases twice
C3_Witness ==
    /\ Returned
    /\ Len(Trace) = 3
    /\ Trace[1].stock_apres < Trace[1].stock_avant
    /\ Trace[2].stock_apres < Trace[2].stock_avant

\* C4: covered iff available = quantity; uncovered iff available = 0 and
\* quantity > 0.
C4_Classification ==
    Returned =>
        \A i \in 1..Len(Cov) :
            LET r == Cov[i]
                q == r.besoin.quantite
            IN  /\ r.etat_couverture = COUVERT
                     <=> r.quantite_disponible_couverture = q
                /\ r.etat_couverture = NON_COUVERT
                     <=> (r.quantite_disponible_couverture = 0 /\ q > 0)

\* a run with a covered event of quantity 0, a partial and an uncovered one
C4_Witness ==
    /\ Returned
    /\ \E i, j, k \in 1..Len(Cov) :
          /\ Cov[i].etat_couverture = COUVERT /\ Cov[i].besoin.quantite = 0
          /\ Cov[j].etat_couverture = PARTIEL
          /\ Cov[k].etat_couverture = NON_COUVERT

\* positions, in processing order, of the events that are not covered
Unmet == {i \in 1..Len(Trace) : Trace[i].etat # COUVERT}
FirstUnmet == CHOOSE i \in Unmet : \A j \in Unmet : i <= j

\* C5: the first-unmet event has the smallest 0-based position of a
\* non-covered event, and is absent iff every event is covered.
C5_FirstUnmet ==
    Returned =>
        /\ Chrono.premier_besoin_non_couvert = None <=> Unmet = {}
        /\ Chrono.premier_besoin_non_couvert = None
              <=> \A i \in 1..Len(Cov) : Cov[i].etat_couverture = COUVERT
        /\ Unmet # {} =>
              Chrono.premier_besoin_non_couvert.index = FirstUnmet - 1

\* the first event is unmet (index 0) and a later one is unmet as well
C5_Witness ==
    /\ Returned
    /\ Len(Trace) = 3
    /\ Unmet = {1, 3}

\* C6: the first-unmet event reports the running supply just before it and,
\* as shortfall, its quantity minus the quantity made available to it.
C6_Shortfall ==
    (Returned /\ Unmet # {}) =>
        LET p == Chrono.premier_besoin_non_couvert
            i == FirstUnmet
        IN  /\ p.stock_restant = SupplyBefore(i)
            /\ p.quantite_besoin = Cov[i].besoin.quantite
            /\ p.echeance = Cov[i].besoin.echeance \div TicksPerDay
            /\ p.quantite_manquante =
                  Cov[i].besoin.quantite - Cov[i].quantite_disponible_couverture
            /\ Cov[i].etat_couverture = PARTIEL =>
                  p.quantite_manquante = Cov[i].besoin.quantite - SupplyBefore(i)
            /\ Cov[i].etat_couverture = NON_COUVERT =>
                  p.quantite_manquante = Cov[i].besoin.quantite

\* the first unmet event is partial and comes after a covered one
C6_Witness ==
    /\ Returned
    /\ Unmet # {}
    /\ FirstUnmet = 2
    /\ Cov[2].etat_couverture = PARTIEL
    /\ Cov[1].besoin.quantite > 0

\* C7: once an event is partial or uncovered the running supply is 0 for the
\* rest of the run, later events of quantity > 0 are uncovered, at most one
\* event is partial, and with supply 0 every event of quantity > 0 is
\* uncovered.
C7_PoolExhausted ==
    Returned =>
        /\ \A i \in 1..Len(Cov) :
              Cov[i].etat_couverture # COUVERT =>
                 /\ Cov[i].stock_restant_apres_consommation = 0
                 /\ Trace[i].stock_apres = 0
                 /\ \A j \in (i + 1)..Len(Cov) :
                       /\ Cov[j].stock_restant_apres_consommation = 0
                       /\ Trace[j].stock_apres = 0
                       /\ Cov[j].etat_couverture # PARTIEL
                       /\ Trace[j].etat # PARTIEL
                       /\ Cov[j].besoin.quantite > 0 =>
                             /\ Cov[j].etat_couverture = NON_COUVERT
                             /\ Trace[j].etat = NON_COUVERT
        /\ Cardinality({i \in 1..Len(Cov) : Cov[i].etat_couverture = PARTIEL}) <= 1
        /\ CoverageSupply(CodeA) = 0 =>
              \A i \in 1..Len(Cov) :
                  Cov[i].besoin.quantite > 0 => Cov[i].etat_couverture = NON_COUVERT

\* a partial event followed by an event of quantity > 0 and one of quantity 0
C7_Witness ==
    /\ Returned
    /\ Len(Cov) = 3
    /\ Cov[1].etat_couverture = PARTIEL
    /\ Cov[2].besoin.quantite > 0
    /\ Cov[3].besoin.quantite = 0

\* C8: on an empty event list the analysis raises nothing and returns an
\* empty step list, no first-unmet event and the initial supply as final
\* supply.
C8_EmptyList ==
    (analyse # None /\ besoins_matiere = <<>>) =>
        /\ analyse # ZeroDivisionError
        /\ Trace = <<>>
        /\ Cov = <<>>
        /\ Chrono.premier_besoin_non_couvert = None
        /\ Chrono.stock_final = CoverageSupply(CodeA)

\* the empty list analysed with the largest supply of the model
C8_Witness ==
    /\ analyse # None
    /\ besoins_matiere = <<>>
    /\ CoverageSupply(CodeA) = MaxStock

\* C9: no step divides by zero: a percentage is a quotient by a quantity
\* > 0, a quantity 0 against supply 0 is covered with available 0 and 100
\* percent, and the coverage rate of an analysis without events is 0.
C9_NoDivisionByZero ==
    analyse # None =>
        /\ analyse # ZeroDivisionError
        /\ analyse.taux_couverture.den > 0
        /\ Len(Cov) = 0 => analyse.taux_couverture.num = 0
        /\ \A i \in 1..Len(Cov) :
              LET r == Cov[i]
              IN  /\ r.pourcentage_couverture.den > 0
                  /\ r.etat_couverture = PARTIEL =>
                        r.pourcentage_couverture.den = r.besoin.quantite
                  /\ (r.besoin.quantite = 0 /\ SupplyBefore(i) = 0) =>
                        /\ r.etat_couverture = COUVERT
                        /\ r.quantite_disponible_couverture = 0
                        /\ r.pourcentage_couverture.num
                              = 100 * r.pourcentage_couverture.den

\* supply 0 and a single event of quantity 0 have been analysed
C9_Witness ==
    /\ analyse # None
    /\ CoverageSupply(CodeA) = 0
    /\ Len(besoins_matiere) = 1
    /\ besoins_matiere[1].quantite = 0

----------------------------------------------------------------------------
(* Properties of the supply aggregation, checked under SpecSupply *)

\* a material has neither a counted stock record nor a matching line
NoSupplyRecord(code) ==
    /\ \A i \in 1..Len(stocks) :
          \/ stocks[i].code_mp # code
          \/ stocks[i].magasin = <<"3", "0">>
          \/ IsExterne(stocks[i].magasin)
    /\ \A r \in 1..Len(rappatriements) :
          \A k \in 1..Len(rappatriements[r].produits) :
             /\ ~OccursIn(code, rappatriements[r].produits[k].code_prdt)
             /\ ~OccursIn(code, rappatriements[r].produits[k].designation_prdt)

\* C10: the coverage supply of a material is the sum of its internal stock
\* quantities plus the net quantities of the shipment lines matching it; it
\* is 0, without error, for a material with no such record.
C10_CoverageSupply ==
    /\ coverage_stock # None =>
          /\ coverage_stock.value = CoverageSupply(coverage_stock.code_mp)
          /\ NoSupplyRecord(coverage_stock.code_mp) => coverage_stock.value = 0
    /\ (resultat # None /\ resultat.op = "analyze_matiere_coverage") =>
          /\ resultat.value # ZeroDivisionError
          /\ resultat.value.analyse_matiere.total_besoins > 0 =>
                /\ resultat.value.analyse_matiere.stock_couverture_disponible
                      = CoverageSupply(resultat.code_mp)
                /\ resultat.value.analyse_matiere.analyse_chronologique.stock_initial
                      = CoverageSupply(resultat.code_mp)

\* the supply of CodeA was computed from an internal record, records in an
\* EX warehouse and in warehouse 30 left out, and from a matching line next
\* to a line that does not match
C10_Witness ==
    /\ coverage_stock # None
    /\ coverage_stock.code_mp = CodeA
    /\ Len(stocks) = 2
    /\ stocks[1].code_mp = CodeA /\ stocks[1].magasin = MagInterne
    /\ stocks[2].code_mp = CodeA /\ stocks[2].magasin = MagExterne
    /\ Len(rappatriements) = 1
    /\ Len(rappatriements[1].produits) = 2
    /\ rappatriements[1].produits[1].code_prdt = <<"X">>
    /\ rappatriements[1].produits[1].designation_prdt = <<>>
    /\ rappatriements[1].produits[2].code_prdt = <<"X", "a", "1">>
    /\ coverage_stock.value = 3

\* the code unknown to the system was queried and 0 came back
C10_WitnessUnknown ==
    /\ coverage_stock # None
    /\ coverage_stock.code_mp = CodeU
    /\ coverage_stock.value = 0
    /\ Len(stocks) = MaxStocks

----------------------------------------------------------------------------
(* Properties of the service, checked under SpecStore and Spec *)

\* what an analysis says of the coverage of one material
CoverageView(am) ==
    [par_besoin |->
        [k \in 1..Len(am.couverture_par_besoin) |->
            LET c == am.couverture_par_besoin[k]
            IN  <<c.besoin.id, c.etat_couverture, c.quantite_disponible_couverture,
                  c.pourcentage_couverture, c.stock_restant_apres_consommation>>],
     chrono |->
        [k \in 1..Len(am.analyse_chronologique.couverture_chronologique) |->
            LET e == am.analyse_chronologique.couverture_chronologique[k]
            IN  <<e.etat, e.stock_avant, e.stock_apres>>],
     premier |-> am.analyse_chronologique.premier_besoin_non_couvert,
     stock_manquant |-> am.stock_manquant]

\* what a result says of the coverage
ResultView(r) ==
    IF r.op = "analyze_matiere_coverage"
    THEN CoverageView(r.value.analyse_matiere)
    ELSE IF r.op = "analyze_coverage"
    THEN [code_mp \in DOMAIN r.value.analyse_par_matiere |->
             CoverageView(r.value.analyse_par_matiere[code_mp])]
    ELSE [k \in 1..Len(r.value) |-> <<r.value[k].id, r.value[k].etat>>]

\* the request a result answers
Request(r) ==
    IF r.op = "analyze_matiere_coverage"
    THEN <<r.op, r.code_mp, r.value.date_initiale, r.value.horizon_jours>>
    ELSE IF r.op = "analyze_coverage"
    THEN <<r.op, r.value.date_initiale, r.value.horizon_jours>>
    ELSE <<r.op>>

\* C11: the demand, the shipments and the stock records outside the EX
\* warehouses being what they are, whatever the EX stock records and the
\* receipts become between two answers to the same request, the second
\* answer reports the same per-event classification, available quantity,
\* percentage and supply before and after, the same first unmet event and
\* the same missing supply as the first.
C11_ExternalIndependence ==
    [][(/\ resultat # None
        /\ resultat'.op = resultat.op
        /\ Request(resultat') = Request(resultat))
       => ResultView(resultat') = ResultView(resultat)]_vars

\* an analysis of CodeA returned while the store holds an imported receipt
\* file and an EX stock record of CodeA
C11_Witness ==
    /\ receptions # <<>>
    /\ \E i \in 1..Len(stocks) :
          stocks[i].code_mp = CodeA /\ IsExterne(stocks[i].magasin)
    /\ resultat # None
    /\ resultat.op = "analyze_matiere_coverage"
    /\ resultat.code_mp = CodeA
    /\ resultat.value.analyse_matiere.total_besoins > 0

\* the analyses of single materials a result carries
Analyses ==
    IF resultat = None THEN {}
    ELSE IF resultat.op = "analyze_besoins" THEN {}
    ELSE IF resultat.value = ZeroDivisionError THEN {}
    ELSE IF resultat.op = "analyze_matiere_coverage"
    THEN {resultat.value.analyse_matiere}
    ELSE IF resultat.op = "analyze_coverage"
    THEN {resultat.value.analyse_par_matiere[c] :
             c \in DOMAIN resultat.value.analyse_par_matiere}
    ELSE {}

\* the k-th line of a shipment weighs 2^(k-1), so a sum of line weights
\* holds the weight w exactly when the line is one of the lines summed
Holds(sum, w) == (sum \div w) % 2 = 1

\* C12: the net quantity of a shipment line is part of the shipment
\* quantity of a material exactly when the code of the material occurs,
\* case-insensitively, in the product code or the description of the line;
\* the other lines of the same shipment are not part of it.
C12_LineMatching ==
    \A am \in Analyses :
        am.total_besoins > 0 =>
            \A r \in 1..Len(rappatriements) :
                \A k \in 1..Len(rappatriements[r].produits) :
                    LET line == rappatriements[r].produits[k]
                    IN  Holds(am.quantite_rappatriements, line.poids_net)
                        <=> \/ OccursIn(am.code_mp, line.code_prdt)
                            \/ OccursIn(am.code_mp, line.designation_prdt)

\* CodeA analysed over a shipment whose first line does not match and
\* whose second line matches by its description only, in another case
C12_Witness ==
    /\ resultat # None
    /\ resultat.op = "analyze_matiere_coverage"
    /\ resultat.code_mp = CodeA
    /\ resultat.value.analyse_matiere.total_besoins > 0
    /\ Len(rappatriements) = 1
    /\ Len(rappatriements[1].produits) = 2
    /\ rappatriements[1].produits[1].code_prdt = <<"X">>
    /\ rappatriements[1].produits[1].designation_prdt = <<>>
    /\ rappatriements[1].produits[2].code_prdt = <<"X", "a", "1">>
    /\ resultat.value.analyse_matiere.quantite_rappatriements = 2

\* the answer of analyze_besoins, when the last answer is one
BesoinsAnalyses ==
    IF resultat # None /\ resultat.op = "analyze_besoins"
    THEN resultat.value ELSE <<>>

\* the first event of a material in an answer of analyze_besoins: its
\* earliest due event, the first to draw on the supply of the material
IsFirstOf(code, i) ==
    /\ BesoinsAnalyses[i].code_mp = code
    /\ \A j \in 1..(i - 1) : BesoinsAnalyses[j].code_mp # code

\* the code of both materials occurs in the line
SharedLine(line) ==
    \A code \in {CodeA, CodeB} :
        \/ OccursIn(code, line.code_prdt)
        \/ OccursIn(code, line.designation_prdt)

\* C13: a shipment line in which the codes of two materials occur counts
\* with its full net quantity for each of them: the first event of either
\* material is covered whenever its quantity is within the net quantity of
\* the line, whatever the other material draws.
C13_SharedLine ==
    \A r \in 1..Len(rappatriements) :
        \A k \in 1..Len(rappatriements[r].produits) :
            LET line == rappatriements[r].produits[k]
            IN  SharedLine(line) =>
                    \A i \in 1..Len(BesoinsAnalyses) :
                        \A code \in {CodeA, CodeB} :
                            (IsFirstOf(code, i)
                             /\ BesoinsAnalyses[i].quantite <= line.poids_net)
                            => BesoinsAnalyses[i].etat = COUVERT

\* no stock, one line of net quantity 1 shared by the two materials, and
\* an event of quantity 1 of each material covered: 2 covered out of 1
C13_Witness ==
    /\ stocks = <<>>
    /\ Len(rappatriements) = 1
    /\ Len(rappatriements[1].produits) = 1
    /\ SharedLine(rappatriements[1].produits[1])
    /\ rappatriements[1].produits[1].poids_net = 1
    /\ \E i, j \in 1..Len(BesoinsAnalyses) :
          /\ BesoinsAnalyses[i].code_mp = CodeA
          /\ BesoinsAnalyses[j].code_mp = CodeB
          /\ BesoinsAnalyses[i].quantite = 1
          /\ BesoinsAnalyses[j].quantite = 1
          /\ BesoinsAnalyses[i].etat = COUVERT
          /\ BesoinsAnalyses[j].etat = COUVERT

\* the external quantity of an analysis, over its warehouses; the i-th stock
\* record holds the quantity 2^(i-1), so a sum of stock quantities holds
\* the quantity of a record exactly when the record is one of those summed
ExternalTotal(am) ==
    Sigma(am.stocks_externes, DOMAIN am.stocks_externes)

\* C14: of the stock records of an analysed material, a record of
\* warehouse 30 is part of neither the internal, nor the external, nor the
\* coverage quantity; any other record is part of the external quantity
\* alone when its warehouse code starts with EX, and of the internal
\* quantity, hence of the coverage quantity, alone otherwise.  A record of
\* another material is part of none.
C14_StockClasses ==
    \A am \in Analyses :
        am.total_besoins > 0 =>
            \A i \in 1..Len(stocks) :
                LET w == stocks[i].quantite
                    mag == stocks[i].magasin
                    inInternal == Holds(am.quantite_stock_internes, w)
                    inExternal == Holds(ExternalTotal(am), w)
                    inCoverage == Holds(am.stock_couverture_disponible
                                        - am.quantite_rappatriements, w)
                IN  IF stocks[i].code_mp # am.code_mp \/ mag = <<"3", "0">>
                    THEN ~inInternal /\ ~inExternal /\ ~inCoverage
                    ELSE IF IsExterne(mag)
                    THEN inExternal /\ ~inInternal /\ ~inCoverage
                    ELSE inInternal /\ inCoverage /\ ~inExternal

\* CodeA analysed over a record of warehouse 30 and a record of an EX
\* warehouse: internal 0, external 2
C14_Witness ==
    /\ resultat # None
    /\ resultat.op = "analyze_matiere_coverage"
    /\ resultat.code_mp = CodeA
    /\ Len(stocks) = 2
    /\ stocks[1].code_mp = CodeA /\ stocks[1].magasin = <<"3", "0">>
    /\ stocks[2].code_mp = CodeA /\ IsExterne(stocks[2].magasin)
    /\ resultat.value.analyse_matiere.total_besoins > 0
    /\ resultat.value.analyse_matiere.quantite_stock_internes = 0
    /\ ExternalTotal(resultat.value.analyse_matiere) = 2

----------------------------------------------------------------------------
(* Statistics of one material, checked under SpecAlloc *)

\* C15: for the event list E of a material and its coverage supply S, the
\* analysis reports total_besoins = |E|, total_couverts = the number of
\* events classified covered, taux_couverture = total_couverts / |E| * 100
\* and 0 when E is empty, quantite_besoin_totale = the sum of the
\* quantities of E, and stock_manquant = max(0, that sum - S).
C15_Statistics ==
    Returned =>
        LET E == besoins_matiere
            n == Len(E)
            covered == Cardinality({i \in 1..Len(Cov) :
                                      Cov[i].etat_couverture = COUVERT})
            total == Sigma([i \in 1..n |-> E[i].quantite], 1..n)
            S == CoverageSupply(CodeA)
            taux == analyse.taux_couverture
        IN  /\ analyse.total_besoins = n
            /\ analyse.total_couverts = covered
            /\ IF n = 0 THEN taux.num = 0
               ELSE taux.num * n = covered * 100 * taux.den
            /\ analyse.quantite_besoin_totale = total
            /\ analyse.stock_manquant = IF total > S THEN total - S ELSE 0

\* three events, one of them covered, and a supply 4 short of the demand
C15_Witness ==
    /\ Returned
    /\ analyse.total_besoins = 3
    /\ analyse.total_couverts = 1
    /\ analyse.stock_manquant = 4

\* the supply exceeds the demand of two events, both covered
C15_WitnessSurplus ==
    /\ Returned
    /\ analyse.total_besoins = 2
    /\ analyse.total_couverts = 2
    /\ analyse.quantite_besoin_totale < CoverageSupply(CodeA)
    /\ analyse.stock_manquant = 0

----------------------------------------------------------------------------
(* The entry points, checked under Spec *)

\* the events an answer of analyze_coverage analyses for a material
EventsOf(am) ==
    {am.couverture_par_besoin[k].besoin : k \in 1..Len(am.couverture_par_besoin)}

\* the stored events in state unknown due within [start, limit]
InWindow(start, limit) ==
    {besoins[i] : i \in {j \in 1..Len(besoins) :
                            /\ besoins[j].etat = "inconnu"
                            /\ start <= besoins[j].echeance
                            /\ besoins[j].echeance <= limit}}

\* C16: analyze_coverage(start_date, horizon_days) analyses exactly the
\* stored events in state unknown whose due date d satisfies
\* start_date <= d <= start_date + horizon_days, grouped by material code:
\* the materials analysed are the codes of those events, and the events
\* analysed for a material are those of its code.
C16_Window ==
    (resultat # None /\ resultat.op = "analyze_coverage") =>
        LET r == resultat.value
            W == InWindow(r.date_initiale, r.date_limite)
        IN  /\ DOMAIN r.analyse_par_matiere = {b.code_mp : b \in W}
            /\ \A c \in DOMAIN r.analyse_par_matiere :
                  /\ EventsOf(r.analyse_par_matiere[c]) =
                        {b \in W : b.code_mp = c}
                  /\ r.analyse_par_matiere[c].total_besoins =
                        Cardinality({i \in 1..Len(besoins) :
                                        besoins[i] \in W /\ besoins[i].code_mp = c})

\* the answer of analyze_matiere_coverage is the well-formed empty analysis
\* of the code asked for
EmptyAnalysis ==
    /\ resultat.value # ZeroDivisionError
    /\ LET am == resultat.value.analyse_matiere
       IN  /\ am.code_mp = resultat.code_mp
           /\ am.total_besoins = 0
           /\ am.total_couverts = 0
           /\ am.taux_couverture.num = 0
           /\ am.couverture_par_besoin = <<>>
           /\ am.analyse_chronologique.couverture_chronologique = <<>>
           /\ am.analyse_chronologique.premier_besoin_non_couvert = None

\* the stored events analyze_matiere_coverage matches a request with:
\* those of the code in state unknown that are due by the limit
Matching(code, limit) ==
    {i \in 1..Len(besoins) :
        /\ besoins[i].code_mp = code
        /\ besoins[i].etat = "inconnu"
        /\ besoins[i].echeance <= limit}

C17_WitnessUnknown ==
    /\ resultat # None
    /\ resultat.op = "analyze_matiere_coverage"
    /\ resultat.code_mp = CodeU
    /\ besoins = BesoinsDeuxMatieres
    /\ EmptyAnalysis

\* C18: an answer of analyze_matiere_coverage for a material M that
\* follows an answer of analyze_coverage for the same start date and
\* horizon over the same data, M having an event in the window, carries as
\* analyse_matiere the entry of M in analyse_par_matiere; and the other way
\* round.
C18_SingleEqualsEntry ==
    [][(/\ resultat # None
        /\ {resultat.op, resultat'.op} =
              {"analyze_coverage", "analyze_matiere_coverage"}
        /\ resultat.value.date_initiale = resultat'.value.date_initiale
        /\ resultat.value.horizon_jours = resultat'.value.horizon_jours)
       => LET all == IF resultat.op = "analyze_coverage"
                     THEN resultat ELSE resultat'
              one == IF resultat.op = "analyze_coverage"
                     THEN resultat' ELSE resultat
          IN  (\E b \in InWindow(all.value.date_initiale,
                                  all.value.date_limite) :
                  b.code_mp = one.code_mp)
              => /\ one.code_mp \in DOMAIN all.value.analyse_par_matiere
                 /\ one.value.analyse_matiere =
                       all.value.analyse_par_matiere[one.code_mp]]_vars

\* the analysis of CodeA alone, one of its two events in state unknown
\* being due beyond the horizon
C18_Witness ==
    /\ resultat # None
    /\ resultat.op = "analyze_matiere_coverage"
    /\ resultat.code_mp = CodeA
    /\ \E i \in 1..Len(besoins) :
          /\ besoins[i].code_mp = CodeA
          /\ besoins[i].etat = "inconnu"
          /\ besoins[i].echeance > resultat.value.date_limite
    /\ resultat.value.analyse_matiere.total_besoins = 1

\* the stored events in state unknown, by position
Unknown == {i \in 1..Len(besoins) : besoins[i].etat = "inconnu"}

\* what a copy keeps of an event
Kept(b) == <<b.id, b.code_mp, b.quantite, b.echeance, b.lot>>

\* the supply of a material left after the first n events of an answer of
\* analyze_besoins, the events of the material drawing on it in turn
RECURSIVE Remaining(_, _)
Remaining(code, n) ==
    IF n = 0 THEN CoverageSupply(code)
    ELSE LET s == Remaining(code, n - 1)
             b == BesoinsAnalyses[n]
         IN  IF b.code_mp # code THEN s
             ELSE IF s >= b.quantite THEN s - b.quantite
             ELSE 0

\* C19: analyze_besoins returns exactly one copy per stored event in state
\* unknown, whatever its due date, and none of another event; a copy keeps
\* the id, material, quantity, due date and lot, and carries the state the
\* allocation in due date order over the supply of its material gives it:
\* covered, partial or uncovered, never unknown.
C19_OneCopyEach ==
    (resultat # None /\ resultat.op = "analyze_besoins") =>
        /\ Len(BesoinsAnalyses) = Cardinality(Unknown)
        /\ \A i \in Unknown :
              Cardinality({k \in 1..Len(BesoinsAnalyses) :
                              Kept(BesoinsAnalyses[k]) = Kept(besoins[i])})
              = Cardinality({j \in Unknown : Kept(besoins[j]) = Kept(besoins[i])})
        /\ \A k \in 1..Len(BesoinsAnalyses) :
              LET b == BesoinsAnalyses[k]
                  s == Remaining(b.code_mp, k - 1)
              IN  /\ b.etat \in {"couvert", "partiel", "non_couvert"}
                  /\ b.etat = IF s >= b.quantite THEN "couvert"
                              ELSE IF s > 0 THEN "partiel"
                              ELSE "non_couvert"

\* three copies for a store of four events, one of them already covered
\* and one due beyond every horizon, the three states computed
C19_Witness ==
    /\ resultat # None
    /\ resultat.op = "analyze_besoins"
    /\ Len(besoins) = 4
    /\ Len(BesoinsAnalyses) = 3
    /\ \E k \in 1..3 : BesoinsAnalyses[k].echeance = FarDate
    /\ \E k \in 1..3 : BesoinsAnalyses[k].etat = "couvert"
    /\ \E k \in 1..3 : BesoinsAnalyses[k].etat = "partiel"

\* C20: an answer of analyze_besoins that follows an answer of
\* analyze_besoins, nothing else having run in between, is the same list:
\* the same events in the same order with the same states.
C20_Idempotent ==
    [][(/\ resultat # None
        /\ resultat.op = "analyze_besoins"
        /\ resultat'.op = "analyze_besoins")
       => resultat'.value = resultat.value]_vars

\* an answer of analyze_besoins that classifies the events of the two
\* materials, the second event of CodeA left uncovered
C20_Witness ==
    /\ resultat # None
    /\ resultat.op = "analyze_besoins"
    /\ besoins = BesoinsDeuxMatieres
    /\ Len(BesoinsAnalyses) = 3
    /\ BesoinsAnalyses[1].etat = "couvert"
    /\ BesoinsAnalyses[2].etat = "non_couvert"

\* C21: a step of analyze_besoins, analyze_coverage or
\* analyze_matiere_coverage leaves the stored data as it was: the same
\* demand events in the same order with the same quantities, those in
\* state unknown still in state unknown, and the stock, receipt and
\* shipment collections unchanged.
C21_NoMutation ==
    [][/\ Len(besoins') = Len(besoins)
       /\ \A i \in 1..Len(besoins) :
             /\ besoins'[i].id = besoins[i].id
             /\ besoins'[i].quantite = besoins[i].quantite
             /\ besoins'[i].etat = besoins[i].etat
             /\ besoins'[i] = besoins[i]
       /\ stocks' = stocks
       /\ receptions' = receptions
       /\ rappatriements' = rappatriements]_vars

\* an answer of analyze_coverage that classifies an event covered, over a
\* store whose events, kept out of due date order, are all in state unknown
C21_Witness ==
    /\ resultat # None
    /\ resultat.op = "analyze_coverage"
    /\ besoins = BesoinsDeuxMatieres
    /\ \A i \in 1..Len(besoins) : besoins[i].etat = "inconnu"
    /\ \E am \in Analyses : am.total_couverts > 0

----------------------------------------------------------------------------
(* Requests served at the same time, checked under SpecConc *)

\* C22: whatever the other requests do in between the steps of a request,
\* the request that has returned holds the result the analysis gives when it
\* runs alone on the stored data: analyze_besoins the sorted copies of
\* every unknown event, analyze_matiere_coverage the analysis of its code.
C22_Isolation ==
    \A r \in DOMAIN requetes :
        requetes[r].pc = "done" =>
            IF requetes[r].op = "analyze_besoins"
            THEN requetes[r].result = AnalyzeBesoinsOf
            ELSE requetes[r].result =
                     AnalyzeMatiereCoverageOf(requetes[r].code_mp,
                                              requetes[r].date_initiale,
                                              requetes[r].horizon_days)

\* a request has returned its copies while another one is inside its loop,
\* with the copies of one code made and another code still to do
C22_Witness ==
    /\ DOMAIN requetes # {}
    /\ \E r, o \in DOMAIN requetes :
          /\ r # o
          /\ requetes[r].pc = "done"
          /\ requetes[r].op = "analyze_besoins"
          /\ Len(requetes[r].result) >= 2
          /\ requetes[o].pc = "loop"
          /\ requetes[o].besoins_analyses # <<>>
          /\ requetes[o].keys # <<>>

----------------------------------------------------------------------------
(* The receipts in progress, checked under Spec *)

\* the quantities of the stored receipts of a code that are in progress
InProgress(code_mp) ==
    {i \in 1..Len(receptions) :
        /\ receptions[i].code_mp = code_mp
        /\ receptions[i].etat = EN_COURS}

\* C23: the quantite_receptions of an analysis of a material is the sum of
\* the quantities of the stored receipts of the material that are in the
\* state en_cours.
C23_ReceptionsEnCours ==
    \A am \in Analyses :
        am.total_besoins > 0 =>
            am.quantite_receptions =
                Sigma([i \in 1..Len(receptions) |-> receptions[i].quantite],
                      InProgress(am.code_mp))

----------------------------------------------------------------------------
(* The demand repository, checked under SpecRepo *)

\* the ids of the events a sheet holds: one for every cell of a positive
\* quantity, made of the code and the day
IdsOfFile(file) ==
    {<<file.cells[k].code_mp, file.cells[k].echeance \div TicksPerDay>> :
        k \in {k \in 1..Len(file.cells) : file.cells[k].quantite > 0}}

\* C24: after import_besoins on a file that can be decoded the answer has
\* statut success, the repository holds one event for every distinct id
\* of the file and nothing else, and besoins_importes is the number of
\* events stored; statut error comes only with a file that cannot be read.
C24_ImportBesoins ==
    (resultat # None /\ resultat.op = "import_besoins") =>
        /\ resultat.file.readable =>
              /\ resultat.value.statut = "success"
              /\ {besoins[i].id : i \in 1..Len(besoins)} = IdsOfFile(resultat.file)
              /\ Len(besoins) = Cardinality(IdsOfFile(resultat.file))
              /\ resultat.value.besoins_importes = Len(besoins)
        /\ resultat.value.statut = "error" => ~resultat.file.readable

\* C29: no two events stored carry the same id, so that the event
\* get_by_id returns for an id is the only one stored under it.
C29_UniqueIds ==
    \A i, j \in 1..Len(besoins) :
        besoins[i].id = besoins[j].id => i = j

----------------------------------------------------------------------------
(* Conservation and agreement of the two passes, checked under             *)
(* SpecAllocShipment                                                        *)

\* the quantity made available to the events analysed
Allocated ==
    Sigma([i \in 1..Len(Cov) |-> Cov[i].quantite_disponible_couverture],
          1..Len(Cov))

\* the running supply at the end of the allocation
FinalSupply ==
    IF Len(Cov) = 0 THEN CoverageSupply(CodeA)
    ELSE Cov[Len(Cov)].stock_restant_apres_consommation

C26_WitnessShort ==
    /\ Returned
    /\ Len(Cov) = 3
    /\ Cov[2].etat_couverture = COUVERT
    /\ Cov[3].etat_couverture = PARTIEL
    /\ analyse.stock_manquant > 0
    /\ Chrono.premier_besoin_non_couvert # None

\* C27: the coverage list and the trace have the same length, list the
\* events in the same order, classify every position alike, and the supply
\* left after an event in the list is the supply_after of its step.
C27_TwoPasses ==
    Returned =>
        /\ Len(Cov) = Len(Trace)
        /\ \A i \in 1..Len(Cov) :
              /\ Trace[i].quantite_besoin = Cov[i].besoin.quantite
              /\ Trace[i].echeance = Cov[i].besoin.echeance \div TicksPerDay
              /\ Trace[i].etat = Cov[i].etat_couverture
              /\ Trace[i].stock_apres = Cov[i].stock_restant_apres_consommation

\* a partial event between a covered one and a later event that asks for
\* something
C27_Witness ==
    /\ Returned
    /\ Len(Cov) = 3
    /\ Cov[1].etat_couverture = COUVERT
    /\ Trace[2].etat = PARTIEL
    /\ Cov[3].besoin.quantite > 0
    /\ Cov[1].besoin.echeance < Cov[3].besoin.echeance

----------------------------------------------------------------------------
(* The window and the backlog, checked under SpecStore *)

\* the entry point that gave the last answer
Operation == IF resultat = None THEN "" ELSE resultat.op

\* C28: an answer of analyze_coverage and an answer of analyze_besoins that
\* follow one another over the same data agree on every event the first
\* one analyses: the copy of the event in the second has the
\* classification the event has in its material's coverage list.
C28_WindowAgreesWithBacklog ==
    [][(/\ resultat # None
        /\ {resultat.op, resultat'.op} = {"analyze_coverage", "analyze_besoins"})
       => LET window == IF resultat.op = "analyze_coverage"
                        THEN resultat.value ELSE resultat'.value
              backlog == IF resultat.op = "analyze_besoins"
                         THEN resultat.value ELSE resultat'.value
          IN  window # ZeroDivisionError =>
                 \A c \in DOMAIN window.analyse_par_matiere :
                    LET cov == window.analyse_par_matiere[c].couverture_par_besoin
                    IN  \A k \in 1..Len(cov) :
                           /\ \E n \in 1..Len(backlog) :
                                 backlog[n].id = cov[k].besoin.id
                           /\ \A n \in 1..Len(backlog) :
                                 backlog[n].id = cov[k].besoin.id =>
                                    backlog[n].etat = cov[k].etat_couverture]_Operation

\* an analysis of the window from tick 0 that leaves an unknown event of the
\* store out, due beyond the limit, and finds an event of a material
\* covered and a later one partial
C28_Witness ==
    /\ resultat # None
    /\ resultat.op = "analyze_coverage"
    /\ resultat.value # ZeroDivisionError
    /\ resultat.value.date_initiale = 0
    /\ \E i \in Unknown : besoins[i].echeance > resultat.value.date_limite
    /\ \E am \in Analyses :
          \E k, l \in 1..Len(am.couverture_par_besoin) :
             /\ k < l
             /\ am.couverture_par_besoin[k].etat_couverture = COUVERT
             /\ am.couverture_par_besoin[l].etat_couverture = PARTIEL

\* an analysis of the window from tick 1 that holds an event due before the
\* start and leaves a later event of the material partial
C28_WitnessBeforeStart ==
    /\ resultat # None
    /\ resultat.op = "analyze_coverage"
    /\ resultat.value # ZeroDivisionError
    /\ resultat.value.date_initiale = 1
    /\ \E am \in Analyses :
          \E k, l \in 1..Len(am.couverture_par_besoin) :
             /\ am.couverture_par_besoin[k].besoin.echeance < 1
             /\ am.couverture_par_besoin[k].etat_couverture = COUVERT
             /\ am.couverture_par_besoin[l].etat_couverture = PARTIEL

----------------------------------------------------------------------------
(* The read queries of the demand repository, checked under SpecQuery *)

\* C30: a call of get_besoins_aggregated_by_timelapse, of
\* get_besoins_by_etat or of analyze_besoins leaves every stored event
\* with the quantity it had, and leaves what analyze_besoins returns on the
\* stored data as it was.
C30_QueriesReadOnly ==
    [][/\ Len(besoins') = Len(besoins)
       /\ \A i \in 1..Len(besoins) :
             besoins'[i].quantite = besoins[i].quantite
       /\ AnalyzeBesoinsOf' = AnalyzeBesoinsOf]_vars

====
